---- MODULE Spec2Model ----
(***************************************************************************)
(* Room ledger of the hotel booking server (src/booking_server.py): the    *)
(* in-memory table df, the CSV file it is flushed to, and the REST         *)
(* handlers that read and mutate it.  Every handler is an `async def`      *)
(* without an await in its body, so the event loop runs each handler to    *)
(* completion before it starts the next one: one action per handler.       *)
(***************************************************************************)
EXTENDS Integers, Sequences, FiniteSets, TLC

VARIABLES
    df,        \* the in-memory ledger: room number -> row
    csv,       \* the content of Hotel_data_updated.csv as last written
    resp,      \* the response of the last request handled
    prev,      \* op, room and status of the request handled before it
    steps,     \* number of requests handled so far
    inflight,  \* requests sent by clients and not yet handled
    done,      \* client -> the response it received
    guest,     \* the guest record handed to the context analysis
    insights,  \* the insight bundle the analysis returned for it
    llm,       \* the Ollama service as the front ends find it
    reply,     \* the last answer of a front end's LLM-backed handler
    recs,      \* the room recommendations the guest front end generated
    tool,      \* the last call of the contextual_room_booking tool
    session,   \* st.session_state of the guest front end
    desk       \* st.session_state of the staff front end

vars == <<df, csv, resp, prev, steps, inflight, done, guest, insights, llm, reply,
          recs, tool, session, desk>>

\* The state of the front ends and of the booking tool.
frontends == <<recs, tool, session, desk>>

\* Number of requests a run handles.
MaxOps == 2

\* ------------------------------------------------------------------ strings

\* str.lower() on the strings that occur in the Availability and
\* upsell-reserved columns and in the payloads.
Lower(s) ==
    CASE s = "Available" -> "available"
      [] s = "Booked"    -> "booked"
      [] s = "Yes"       -> "yes"
      [] s = "No"        -> "no"
      [] OTHER           -> s

Digit == <<"0", "1", "2", "3", "4", "5", "6", "7", "8", "9">>

\* str(n) of a non-negative int.
RECURSIVE IntToStr(_)
IntToStr(n) ==
    IF n < 10 THEN Digit[n + 1]
    ELSE IntToStr(n \div 10) \o Digit[(n % 10) + 1]

\* -------------------------------------------------------------------- dates

\* What the format '%Y-%m-%d' extracts from a string: <<year, month, day>>,
\* or <<>> when the string does not match the format.
DateFields(s) ==
    CASE s = "2025-07-09" -> <<2025, 7, 9>>
      [] s = "2025-07-10" -> <<2025, 7, 10>>
      [] s = "2025-07-12" -> <<2025, 7, 12>>
      [] s = "2025-08-01" -> <<2025, 8, 1>>
      [] s = "2025-08-04" -> <<2025, 8, 4>>
      [] s = "2025-02-30" -> <<2025, 2, 30>>
      [] OTHER            -> <<>>

IsLeap(y) == (y % 4 = 0) /\ ((y % 100 # 0) \/ (y % 400 = 0))

DaysInMonth(y, m) ==
    IF m = 2 THEN (IF IsLeap(y) THEN 29 ELSE 28)
    ELSE IF m \in {4, 6, 9, 11} THEN 30 ELSE 31

RECURSIVE DaysBeforeMonth(_, _)
DaysBeforeMonth(y, m) ==
    IF m = 1 THEN 0 ELSE DaysBeforeMonth(y, m - 1) + DaysInMonth(y, m - 1)

\* datetime.toordinal(): days since 0001-01-01, which counts as day 1.
ToOrdinal(y, m, d) ==
    365 * (y - 1) + ((y - 1) \div 4) - ((y - 1) \div 100) + ((y - 1) \div 400)
        + DaysBeforeMonth(y, m) + d

\* The value strptime's ValueError is modelled by.
NoDate == -1

\* datetime.strptime(s, '%Y-%m-%d'): the date as its ordinal, NoDate when
\* strptime raises ValueError (format mismatch, or a day the month lacks).
strptime(s) ==
    LET f == DateFields(s) IN
    IF f = <<>> THEN NoDate
    ELSE IF f[2] < 1 \/ f[2] > 12 THEN NoDate
    ELSE IF f[3] < 1 \/ f[3] > DaysInMonth(f[1], f[2]) THEN NoDate
    ELSE ToOrdinal(f[1], f[2], f[3])

\* ------------------------------------------------------------------- ledger

\* The rows of the file in file order (df.iterrows order).
RoomOrder == <<101, 102>>

RoomNumbers == {RoomOrder[i] : i \in DOMAIN RoomOrder}

\* The prices the data-cleaning script gives each room type.
price_map(room_type) ==
    CASE room_type = "Single" -> 2000
      [] room_type = "Double" -> 3500
      [] room_type = "Family" -> 10000
      [] room_type = "Deluxe" -> 5000
      [] room_type = "Suite"  -> 8000
      [] OTHER                -> 0

\* The room type in each row of the file.
room_type(n) == IF n % 2 = 1 THEN "Double" ELSE "Deluxe"

\* The rows pd.read_csv and the fillna calls can produce for room n: a room
\* nobody occupies, with every guest column empty, or a room a guest holds.
LoadedRows(n) ==
    { [RoomType |-> room_type(n), Availability |-> "Available", NameOfGuest |-> "",
       NumberOfPeople |-> "", ExtraFacility |-> "", CheckIn |-> "",
       CheckOut |-> "", Price |-> price_map(room_type(n)), Reserved |-> r]
        : r \in {"No", "Yes"} }
    \cup
    { [RoomType |-> room_type(n), Availability |-> "Booked", NameOfGuest |-> "Guest_7",
       NumberOfPeople |-> "2", ExtraFacility |-> "", CheckIn |-> "2025-07-09",
       CheckOut |-> "2025-07-10", Price |-> price_map(room_type(n)), Reserved |-> r]
        : r \in {"No", "Yes"} }

\* df[df["Room Number"] == n].empty
RowEmpty(d, n) == n \notin DOMAIN d

\* row.iloc[0]["Availability"].lower() == "available"
IsAvailable(row) == Lower(row.Availability) = "available"

\* _save_csv(): the whole table is written to the file.
_save_csv(d) == d

\* ---------------------------------------------------------------- responses

\* What a request carries, as far as the handlers read it.
Request(room, guest_id, check_in, check_out) ==
    [room |-> room, guest_id |-> guest_id,
     check_in |-> check_in, check_out |-> check_out]

\* number_of_people: Union[int, str]
PeopleInt(k) == [is_int |-> TRUE, int |-> k, str |-> ""]
PeopleStr(t) == [is_int |-> FALSE, int |-> 0, str |-> t]

\* A RoomUpdate body with every optional field at its default.
NoPayload ==
    [availability |-> "", guest_name |-> "", number_of_people |-> PeopleStr(""),
     check_in_date |-> "", check_out_date |-> "", extra_facility |-> ""]

\* A response: the handler and the request it answers, the HTTP status, the
\* room numbers of the rows a listing returns and a booking's total_cost.
\* `payload` is the RoomUpdate body a PUT carried; `priced` is the list of
\* room dicts the upselling listing returns.
Response(op, req, status, rooms, cost) ==
    [op |-> op, room |-> req.room, req |-> req, status |-> status,
     rooms |-> rooms, cost |-> cost, payload |-> NoPayload, priced |-> <<>>]

NoResponse == Response("none", Request(0, 0, "", ""), 0, <<>>, 0)

Summary(r) == [op |-> r.op, room |-> r.room, status |-> r.status]

\* The room numbers in `keep`, in file order: the rows a loop over
\* df.iterrows() appends.
RECURSIVE SelectRooms(_, _)
SelectRooms(keep, i) ==
    IF i > Len(RoomOrder) THEN <<>>
    ELSE (IF RoomOrder[i] \in keep THEN <<RoomOrder[i]>> ELSE <<>>)
             \o SelectRooms(keep, i + 1)

InList(n, rooms) == \E i \in DOMAIN rooms : rooms[i] = n

\* ------------------------------------------------------------ GET handlers

\* ListedAsAvailable without the test of the reserved column.
ListedAsAvailable_IgnoresReserved(row) == IsAvailable(row)

\* GET /rooms/available: Available and not reserved for upselling.
ListedAsAvailable(row) == IsAvailable(row) /\ Lower(row.Reserved) = "no"

available_rooms(d) ==
    Response("available_rooms", Request(0, 0, "", ""), 200,
             SelectRooms({n \in DOMAIN d : ListedAsAvailable(d[n])}, 1), 0)

\* UpsellRoom with the markup applied to every listed room, reserved or not.
UpsellRoom_MarksUpEveryRoom(n, row, markup_percentage) ==
    [RoomNumber |-> n, Price |-> row.Price * (100 + markup_percentage),
     original_price |-> row.Price * 100,
     is_premium_upselling |-> Lower(row.Reserved) = "yes",
     markup_percentage |-> IF Lower(row.Reserved) = "yes"
                           THEN markup_percentage ELSE 0]

\* The dict the upselling listing returns for one room.  Prices in a dict are
\* in hundredths of a rupee, so that original * (1 + markup / 100) is the
\* integer original * (100 + markup); the rounding of binary floats is left
\* out.
UpsellRoom(n, row, markup_percentage) ==
    IF Lower(row.Reserved) = "yes"
    THEN [RoomNumber |-> n, Price |-> row.Price * (100 + markup_percentage),
          original_price |-> row.Price * 100, is_premium_upselling |-> TRUE,
          markup_percentage |-> markup_percentage]
    ELSE [RoomNumber |-> n, Price |-> row.Price * 100,
          original_price |-> row.Price * 100, is_premium_upselling |-> FALSE,
          markup_percentage |-> 0]

\* GET /rooms/available-with-upselling: every Available room, reserved or not.
available_rooms_with_upselling(d, markup_percentage) ==
    LET rooms == SelectRooms({n \in DOMAIN d : IsAvailable(d[n])}, 1) IN
    [Response("available_rooms_with_upselling", Request(0, 0, "", ""), 200, rooms, 0)
        EXCEPT !.priced = [i \in DOMAIN rooms |->
                              UpsellRoom(rooms[i], d[rooms[i]], markup_percentage)]]

\* FreeByCheckIn with < for <=: a room whose guest leaves on the requested
\* check-in day counts as occupied.
FreeByCheckIn_Strict(row, check_in_date) ==
    /\ row.CheckOut # ""
    /\ strptime(row.CheckOut) # NoDate
    /\ strptime(row.CheckOut) < check_in_date

\* The date test both date-range listings apply to a row that is not
\* Available: it has a check-out date, the date parses, and it is on or
\* before the requested check-in.
FreeByCheckIn(row, check_in_date) ==
    /\ row.CheckOut # ""
    /\ strptime(row.CheckOut) # NoDate
    /\ strptime(row.CheckOut) <= check_in_date

\* GET /rooms/available-for-dates
available_rooms_for_dates(d, check_in, check_out) ==
    LET check_in_date  == strptime(check_in)
        check_out_date == strptime(check_out)
        req == Request(0, 0, check_in, check_out)
        Keep(row) == /\ Lower(row.Reserved) # "yes"
                     /\ \/ IsAvailable(row)
                        \/ FreeByCheckIn(row, check_in_date)
    IN  IF check_in_date = NoDate \/ check_out_date = NoDate
        THEN Response("available_rooms_for_dates", req, 400, <<>>, 0)
        ELSE Response("available_rooms_for_dates", req, 200,
                      SelectRooms({n \in DOMAIN d : Keep(d[n])}, 1), 0)

\* GET /rooms/available-for-dates-with-upselling
available_rooms_for_dates_with_upselling(d, check_in, check_out) ==
    LET check_in_date  == strptime(check_in)
        check_out_date == strptime(check_out)
        req == Request(0, 0, check_in, check_out)
        Keep(row) == IsAvailable(row) \/ FreeByCheckIn(row, check_in_date)
    IN  IF check_in_date = NoDate \/ check_out_date = NoDate
        THEN Response("available_rooms_for_dates_with_upselling", req, 400, <<>>, 0)
        ELSE Response("available_rooms_for_dates_with_upselling", req, 200,
                      SelectRooms({n \in DOMAIN d : Keep(d[n])}, 1), 0)

\* ------------------------------------------------- POST /bookings/create

\* BookedRow without the Availability column in the assignment.
BookedRow_KeepsAvailability(row, booking) ==
    [row EXCEPT !.NameOfGuest  = "Guest_" \o IntToStr(booking.guest_id),
                !.CheckIn      = booking.check_in,
                !.CheckOut     = booking.check_out]

\* The four columns create_booking assigns to the room's row.
BookedRow(row, booking) ==
    [row EXCEPT !.Availability = "Booked",
                !.NameOfGuest  = "Guest_" \o IntToStr(booking.guest_id),
                !.CheckIn      = booking.check_in,
                !.CheckOut     = booking.check_out]

\* nights counting both the check-in and the check-out day.
nights_Inclusive(check_in_date, check_out_date) ==
    check_out_date - check_in_date + 1

\* (strptime(check_out) - strptime(check_in)).days
nights(check_in_date, check_out_date) == check_out_date - check_in_date

\* The handler from its first line to its return or raise.  The row is
\* assigned before the dates are parsed, and the file is written after: a
\* ValueError from strptime leaves the handler (status 500) with the row
\* assigned and the file not written.
create_booking(d, f, booking) ==
    LET n == booking.room IN
    IF RowEmpty(d, n)
    THEN [df |-> d, csv |-> f, resp |-> Response("create_booking", booking, 404, <<>>, 0)]
    ELSE IF ~IsAvailable(d[n])
    THEN [df |-> d, csv |-> f, resp |-> Response("create_booking", booking, 400, <<>>, 0)]
    ELSE
        LET row == d[n]
            d2  == [d EXCEPT ![n] = BookedRow(row, booking)]
            check_out_date == strptime(booking.check_out)
            check_in_date  == strptime(booking.check_in)
        IN  IF check_out_date = NoDate \/ check_in_date = NoDate
            THEN [df |-> d2, csv |-> f,
                  resp |-> Response("create_booking", booking, 500, <<>>, 0)]
            ELSE [df |-> d2, csv |-> _save_csv(d2),
                  resp |-> Response("create_booking", booking, 200, <<>>,
                                    row.Price * nights(check_in_date, check_out_date))]

\* ------------------------------------- PUT /rooms/{n}/update-guest-info

\* str(payload.number_of_people)
PyStr(v) == IF v.is_int THEN IntToStr(v.int) ELSE v.str

\* `a or b` taken as `a`: the supplied value is stored even when it is empty.
Or_TakesSupplied(a, b) == a

\* Python's `a or b` on strings.
Or(a, b) == IF a # "" THEN a ELSE b

\* The six columns update_guest assigns to the room's row.
UpdatedRow(row, payload) ==
    [row EXCEPT !.Availability   = Or(payload.availability, row.Availability),
                !.NameOfGuest    = Or(payload.guest_name, row.NameOfGuest),
                !.NumberOfPeople = Or(PyStr(payload.number_of_people), row.NumberOfPeople),
                !.ExtraFacility  = Or(payload.extra_facility, row.ExtraFacility),
                !.CheckIn        = Or(payload.check_in_date, row.CheckIn),
                !.CheckOut       = Or(payload.check_out_date, row.CheckOut)]

update_guest(d, f, n, payload, op) ==
    LET req == Request(n, 0, payload.check_in_date, payload.check_out_date) IN
    IF RowEmpty(d, n)
    THEN [df |-> d, csv |-> f,
          resp |-> [Response(op, req, 404, <<>>, 0) EXCEPT !.payload = payload]]
    ELSE LET d2 == [d EXCEPT ![n] = UpdatedRow(d[n], payload)]
         IN  [df |-> d2, csv |-> _save_csv(d2),
              resp |-> [Response(op, req, 200, <<>>, 0) EXCEPT !.payload = payload]]

\* PUT /rooms/{n}/status
update_status(d, f, n, payload, op) == update_guest(d, f, n, payload, op)

\* ------------------------------------------ DELETE /bookings/cancel/{n}

\* ClearedRow without the guest name in the assignment.
ClearedRow_KeepsGuest(row) ==
    [row EXCEPT !.Availability = "Available",
                !.NumberOfPeople = "", !.ExtraFacility = "",
                !.CheckIn = "", !.CheckOut = ""]

\* ClearedRow that also takes the room out of the upselling reserve.
ClearedRow_ResetsReserved(row) ==
    [row EXCEPT !.Availability = "Available", !.NameOfGuest = "",
                !.NumberOfPeople = "", !.ExtraFacility = "",
                !.CheckIn = "", !.CheckOut = "", !.Reserved = "No"]

\* The six columns cancel_booking assigns to the room's row.
ClearedRow(row) ==
    [row EXCEPT !.Availability = "Available", !.NameOfGuest = "",
                !.NumberOfPeople = "", !.ExtraFacility = "",
                !.CheckIn = "", !.CheckOut = ""]

\* cancel_booking removing the room's row instead of clearing it.
cancel_booking_DropsRow(d, f, n) ==
    LET req == Request(n, 0, "", "") IN
    IF RowEmpty(d, n)
    THEN [df |-> d, csv |-> f, resp |-> Response("cancel_booking", req, 404, <<>>, 0)]
    ELSE LET d2 == [m \in DOMAIN d \ {n} |-> d[m]]
         IN  [df |-> d2, csv |-> _save_csv(d2),
              resp |-> Response("cancel_booking", req, 200, <<>>, 0)]

cancel_booking(d, f, n) ==
    LET req == Request(n, 0, "", "") IN
    IF RowEmpty(d, n)
    THEN [df |-> d, csv |-> f, resp |-> Response("cancel_booking", req, 404, <<>>, 0)]
    ELSE LET d2 == [d EXCEPT ![n] = ClearedRow(d[n])]
         IN  [df |-> d2, csv |-> _save_csv(d2),
              resp |-> Response("cancel_booking", req, 200, <<>>, 0)]

\* ------------------------------------------------------------- the clients

\* The body StaffInterface.free_room sends to PUT /rooms/{n}/status.
free_room_data ==
    [availability |-> "Available", guest_name |-> "",
     number_of_people |-> PeopleStr(""), check_in_date |-> "",
     check_out_date |-> "", extra_facility |-> ""]

\* The body update_room_with_guest_info sends after a booking.
room_update_data ==
    [availability |-> "Booked", guest_name |-> "Asha Rao",
     number_of_people |-> PeopleInt(2), check_in_date |-> "2025-08-01",
     check_out_date |-> "2025-08-04", extra_facility |-> "Spa"]

\* The two front ends that post bookings.
Clients == {"guest_ui", "staff_ui"}

\* ------------------------------------------------------------------ inputs

RoomInputs == RoomNumbers \cup {999}

GuestIds == {1, 12}

\* <<check_in_date, check_out_date>> of a booking request: three stays, a
\* check-out before the check-in, a check-out on the check-in day, a
\* check-out on a day February lacks, a check-in in another format.
BookingDates ==
    { <<"2025-08-01", "2025-08-04">>, <<"2025-07-09", "2025-07-10">>,
      <<"2025-07-12", "2025-08-01">>, <<"2025-08-04", "2025-08-01">>,
      <<"2025-07-10", "2025-07-10">>, <<"2025-07-10", "2025-02-30">>,
      <<"10/07/2025", "2025-07-12">> }

Payloads == {room_update_data}

ListingCheckIn == {"2025-07-09", "2025-07-10", "10/07/2025"}

ListingCheckOut == {"2025-07-12"}

\* markup_percentage: the default and one other rate.
Markups == {15, 20}

\* RoomUpdate bodies with every combination of supplied and empty fields.
PartialPayloads ==
    [availability : {"", "Booked"}, guest_name : {"", "Asha Rao"},
     number_of_people : {PeopleStr(""), PeopleInt(0), PeopleInt(3)},
     check_in_date : {"", "2025-08-01"}, check_out_date : {"", "2025-08-04"},
     extra_facility : {"", "Spa"}]

\* ------------------------------------------------- the context analysis
\* ContextAwareHotelMCPServer in hotel_mcp_sse_server.py.

UpperCase == "ABCDEFGHIJKLMNOPQRSTUVWXYZ"
LowerCase == "abcdefghijklmnopqrstuvwxyz"

\* str.lower() of one character.
LowerChar(c) ==
    IF \E i \in 1..Len(UpperCase) : SubSeq(UpperCase, i, i) = c
    THEN LET i == CHOOSE k \in 1..Len(UpperCase) : SubSeq(UpperCase, k, k) = c
         IN  SubSeq(LowerCase, i, i)
    ELSE c

\* str.lower(), character by character.
RECURSIVE lower(_)
lower(s) ==
    IF s = "" THEN ""
    ELSE LowerChar(SubSeq(s, 1, 1)) \o lower(SubSeq(s, 2, Len(s)))

\* Python's `word in text` on strings.
Contains(text, word) ==
    \E i \in 1..(Len(text) - Len(word) + 1) :
        SubSeq(text, i, i + Len(word) - 1) = word

\* any(word in text for word in words)
any(words, text) == \E word \in words : Contains(text, word)

\* len(text.split(',')): one more than the number of commas.
SplitCount(text) ==
    1 + Cardinality({i \in 1..Len(text) : SubSeq(text, i, i) = ","})

\* list.append(tag) when the condition holds.
Append_If(cond, tags) == IF cond THEN tags ELSE <<>>

\* RoomCategory with the premium keywords tested before the luxury ones.
RoomCategory_PremiumFirst(prior_room_type) ==
    IF any({"deluxe", "premium", "superior"}, prior_room_type) THEN "premium"
    ELSE IF any({"suite", "presidential", "executive"}, prior_room_type) THEN "luxury"
    ELSE "standard"

\* The if/elif of _analyze_room_preferences on the room type.
RoomCategory(prior_room_type) ==
    IF any({"suite", "presidential", "executive"}, prior_room_type) THEN "luxury"
    ELSE IF any({"deluxe", "premium", "superior"}, prior_room_type) THEN "premium"
    ELSE "standard"

_analyze_room_preferences(prior_room_type, special_requests) ==
    LET room_category == RoomCategory(prior_room_type) IN
    [room_category     |-> room_category,
     space_preference  |-> IF room_category = "luxury" THEN "spacious" ELSE "moderate",
     privacy_level     |-> "standard",
     luxury_inclination |->
         CASE room_category = "luxury"  -> "high"
           [] room_category = "premium" -> "moderate-high"
           [] OTHER                     -> "moderate",
     special_needs |->
         IF special_requests = "" THEN <<>>
         ELSE Append_If(any({"quiet", "silent", "peaceful"}, special_requests),
                        <<"noise_sensitive">>)
           \o Append_If(any({"view", "window", "balcony"}, special_requests),
                        <<"view_important">>)
           \o Append_If(any({"floor", "high", "top"}, special_requests),
                        <<"floor_preference">>)
           \o Append_If(any({"accessible", "disability", "wheelchair"}, special_requests),
                        <<"accessibility_needs">>)
           \o Append_If(any({"early", "late", "check"}, special_requests),
                        <<"flexible_timing">>)]

_analyze_lifestyle(profession, amenities_used, extra_activities) ==
    LET executive == any({"executive", "manager", "director", "ceo", "business"}, profession)
        expert    == ~executive /\ any({"doctor", "engineer", "consultant", "lawyer"}, profession)
        carer     == ~executive /\ ~expert /\ any({"teacher", "nurse", "social"}, profession)
        wellness  == amenities_used # "" /\
                     any({"spa", "massage", "wellness", "gym", "fitness"}, amenities_used)
        pool      == amenities_used # "" /\ any({"pool", "swimming"}, amenities_used)
        meetings  == amenities_used # "" /\
                     any({"business", "meeting", "conference"}, amenities_used)
        tours     == extra_activities # "" /\
                     any({"tour", "sightseeing", "cultural"}, extra_activities)
        adventure == extra_activities # "" /\
                     any({"adventure", "sports", "hiking"}, extra_activities)
        dining    == extra_activities # "" /\
                     any({"dining", "restaurant", "food"}, extra_activities)
    IN
    [activity_level |->
         IF adventure THEN "high"
         ELSE IF pool THEN "moderate-high"
         ELSE IF wellness THEN "high"
         ELSE "moderate",
     wellness_focus |-> IF wellness THEN "high" ELSE "low",
     business_orientation |->
         IF meetings \/ executive THEN "high"
         ELSE IF expert THEN "moderate-high"
         ELSE "low",
     social_preference |-> IF tours \/ carer THEN "high" ELSE "moderate",
     interests |->
            Append_If(executive, <<"business_facilities", "executive_services", "networking">>)
         \o Append_If(expert, <<"professional_services", "quiet_environment">>)
         \o Append_If(carer, <<"community_activities", "social_spaces">>)
         \o Append_If(wellness, <<"wellness", "fitness", "relaxation">>)
         \o Append_If(pool, <<"recreational_swimming">>)
         \o Append_If(meetings, <<"business_facilities", "meeting_spaces">>)
         \o Append_If(tours, <<"cultural_experiences", "local_tours">>)
         \o Append_If(adventure, <<"adventure_sports", "outdoor_activities">>)
         \o Append_If(dining, <<"culinary_experiences">>)]

\* attention_to_detail with the thresholds of detail_orientation.
attention_to_detail_Tiered(special_requests) ==
    IF special_requests # "" /\ Len(special_requests) > 30 THEN "high"
    ELSE IF special_requests # "" /\ Len(special_requests) > 10 THEN "moderate-high"
    ELSE "moderate"

\* The last assignment of _analyze_satisfaction.
attention_to_detail(special_requests) ==
    IF special_requests # "" /\ Len(special_requests) > 20 THEN "high"
    ELSE "moderate"

\* overall_sentiment with the negative tiers tested before the positive ones.
overall_sentiment_NegativeFirst(feedback) ==
    IF feedback = "" THEN "neutral"
    ELSE IF any({"terrible", "awful", "horrible", "worst"}, feedback) THEN "very_negative"
    ELSE IF any({"bad", "poor", "disappointed", "unsatisfied"}, feedback) THEN "negative"
    ELSE IF any({"excellent", "amazing", "perfect", "loved", "wonderful"}, feedback)
         THEN "very_positive"
    ELSE IF any({"good", "nice", "pleasant", "satisfied"}, feedback) THEN "positive"
    ELSE "neutral"

\* The if/elif chain of _analyze_satisfaction on the feedback.
overall_sentiment(feedback) ==
    IF feedback = "" THEN "neutral"
    ELSE IF any({"excellent", "amazing", "perfect", "loved", "wonderful"}, feedback)
         THEN "very_positive"
    ELSE IF any({"good", "nice", "pleasant", "satisfied"}, feedback) THEN "positive"
    ELSE IF any({"terrible", "awful", "horrible", "worst"}, feedback) THEN "very_negative"
    ELSE IF any({"bad", "poor", "disappointed", "unsatisfied"}, feedback) THEN "negative"
    ELSE "neutral"

_analyze_satisfaction(feedback, special_requests) ==
    [overall_sentiment |-> overall_sentiment(feedback),
     service_sensitivity |->
         IF feedback # "" /\ any({"staff", "service", "attitude", "helpful"}, feedback)
         THEN "high" ELSE "moderate",
     complaint_patterns |->
         IF feedback = "" THEN <<>>
         ELSE Append_If(any({"noise", "loud", "disturbing"}, feedback), <<"noise_issues">>)
           \o Append_If(any({"dirty", "clean", "hygiene"}, feedback), <<"cleanliness_issues">>)
           \o Append_If(any({"slow", "wait", "delay"}, feedback), <<"service_speed_issues">>),
     praise_patterns |-> <<>>,
     attention_to_detail |-> attention_to_detail(special_requests)]

\* spending_category with the thresholds themselves in the higher tier.
spending_category_Inclusive(total_bill) ==
    IF total_bill >= 20000 THEN "high"
    ELSE IF total_bill >= 10000 THEN "moderate-high"
    ELSE IF total_bill <= 3000 THEN "budget"
    ELSE "moderate"

\* The if/elif chain of _analyze_loyalty_behavior on the total bill.
spending_category(total_bill) ==
    IF total_bill > 20000 THEN "high"
    ELSE IF total_bill > 10000 THEN "moderate-high"
    ELSE IF total_bill < 3000 THEN "budget"
    ELSE "moderate"

_analyze_loyalty_behavior(loyalty_member, total_bill, payment_method) ==
    [loyalty_tier |-> loyalty_member,
     spending_category |-> spending_category(total_bill),
     payment_behavior |->
         IF Contains(lower(payment_method), "credit") THEN "convenient"
         ELSE IF Contains(lower(payment_method), "cash") THEN "traditional"
         ELSE "standard",
     value_perception |->
         IF total_bill > 20000 THEN "high"
         ELSE IF total_bill > 10000 THEN "moderate"
         ELSE IF total_bill < 3000 THEN "price_sensitive"
         ELSE "moderate",
     retention_probability |->
         IF loyalty_member \in {"Gold", "Platinum", "Diamond"} THEN "high"
         ELSE IF loyalty_member \in {"Silver", "Bronze"} THEN "moderate-high"
         ELSE IF loyalty_member = "New" THEN "opportunity"
         ELSE "moderate"]

_analyze_service_patterns(amenities_used, extra_activities, special_requests) ==
    LET service_count ==
            (IF amenities_used # "" THEN SplitCount(amenities_used) ELSE 0)
          + (IF extra_activities # "" THEN SplitCount(extra_activities) ELSE 0)
          + (IF special_requests # "" THEN 1 ELSE 0)
    IN
    [service_usage_level |->
         IF service_count > 5 THEN "high"
         ELSE IF service_count > 2 THEN "moderate-high"
         ELSE "moderate",
     service_categories |->
            (IF amenities_used = "" THEN <<>>
             ELSE Append_If(any({"spa", "massage", "wellness"}, amenities_used), <<"wellness">>)
               \o Append_If(any({"business", "meeting"}, amenities_used), <<"business">>)
               \o Append_If(any({"dining", "restaurant"}, amenities_used), <<"dining">>))
         \o Append_If(extra_activities # "", <<"experiential">>),
     engagement_style |-> IF service_count > 5 THEN "active" ELSE "moderate",
     service_expectations |-> IF special_requests # "" THEN "detailed" ELSE "standard"]

_analyze_personality_indicators(special_requests, feedback, profession) ==
    [communication_style |->
         IF feedback # "" /\ any({"please", "thank", "appreciate"}, feedback) THEN "polite"
         ELSE IF feedback # "" /\ Len(feedback) > 100 THEN "expressive"
         ELSE "standard",
     detail_orientation |->
         IF special_requests # "" /\ Len(special_requests) > 30 THEN "high"
         ELSE IF special_requests # "" /\ Len(special_requests) > 10 THEN "moderate-high"
         ELSE "moderate",
     social_preference |-> "moderate",
     assertiveness |->
         IF feedback # "" /\ any({"must", "should", "need", "require"}, feedback)
         THEN "high" ELSE "moderate"]

\* The six insight bundles of one guest record.
_perform_deep_context_analysis(guest_data) ==
    LET prior_room_type  == lower(guest_data.room_type)
        special_requests == lower(guest_data.special_requests)
        amenities_used   == lower(guest_data.amenities_used)
        profession       == lower(guest_data.profession)
        extra_activities == lower(guest_data.extra_activities_booked)
        loyalty_member   == guest_data.loyalty_member
        payment_method   == lower(guest_data.payment_method)
        total_bill       == guest_data.total_bill
        feedback         == lower(guest_data.feedback_and_issues)
    IN
    [room_preferences  |-> _analyze_room_preferences(prior_room_type, special_requests),
     lifestyle_profile |-> _analyze_lifestyle(profession, amenities_used, extra_activities),
     satisfaction_insights |-> _analyze_satisfaction(feedback, special_requests),
     loyalty_behavior  |->
         _analyze_loyalty_behavior(loyalty_member, total_bill, payment_method),
     service_patterns  |->
         _analyze_service_patterns(amenities_used, extra_activities, special_requests),
     personality_indicators |->
         _analyze_personality_indicators(special_requests, feedback, profession)]

\* Room types of earlier stays, as the guest records spell them.
GuestRoomTypes ==
    {"", "Double", "Deluxe", "Premium King", "Superior Double", "Suite",
     "Presidential Suite", "Executive Deluxe", "Ensuite Single"}

\* Special requests of 0, 10, 11, 20, 21, 30 and 31 characters.
GuestSpecialRequests ==
    {"", "Quiet room", "High floor.", "Late check-out, 2 pm",
     "Late check-out, 2 pm.", "Quiet room with a balcony view",
     "Quiet room with a balcony view."}

GuestFeedback == {"", "Excellent stay, helpful staff", "Room was not bad"}

\* A guest record with a value in every column.
KnownGuest ==
    [room_type |-> "Deluxe", special_requests |-> "High floor.",
     amenities_used |-> "Spa, Pool", profession |-> "Software Engineer",
     extra_activities_booked |-> "City Tour", loyalty_member |-> "Gold",
     payment_method |-> "Credit Card", total_bill |-> 12000,
     feedback_and_issues |-> ""]

\* Amenities with wellness keywords, pool keywords, both and neither.
GuestAmenities ==
    {"", "Spa", "Gym, Pool", "Pool", "Swimming, Restaurant", "Restaurant",
     "Wellness Centre, Swimming"}

GuestActivities == {"", "City Tour", "Hiking"}

\* Feedback with keywords of one sentiment tier, of several, and of none.
GuestSentiments ==
    {"Wonderful stay", "Good room but terrible wifi", "Excellent food, bad parking",
     "Nice view, poor service", "The worst hotel, bad food", "Awful noise",
     "Disappointed by the delay", "Stayed two nights"}

\* Lifetime spend around each threshold.
GuestBills == {0, 2999, 3000, 3001, 9999, 10000, 10001, 19999, 20000, 20001}

\* The guest records the analysis is run on.
Guests ==
    [room_type : GuestRoomTypes, special_requests : GuestSpecialRequests,
     amenities_used : {"Spa, Pool"}, profession : {"Software Engineer"},
     extra_activities_booked : {"City Tour"}, loyalty_member : {"Gold"},
     payment_method : {"Credit Card"}, total_bill : {12000},
     feedback_and_issues : GuestFeedback]
    \cup {[KnownGuest EXCEPT !.amenities_used = a, !.extra_activities_booked = x] :
              a \in GuestAmenities, x \in GuestActivities}
    \cup {[KnownGuest EXCEPT !.feedback_and_issues = f] : f \in GuestSentiments}
    \cup {[KnownGuest EXCEPT !.total_bill = b] : b \in GuestBills}

\* No record has been fetched yet, and nothing analysed.
NoGuest ==
    [room_type |-> "", special_requests |-> "", amenities_used |-> "",
     profession |-> "", extra_activities_booked |-> "", loyalty_member |-> "New",
     payment_method |-> "", total_bill |-> 0, feedback_and_issues |-> ""]

NoInsights == [analysed |-> FALSE]

\* ----------------------------------------------------- the LLM fall-backs
\* OllamaClient and the LLM-backed handlers of the two front ends.

\* How a call ends: it returns a text or raises an exception.
Return(text) == [kind |-> "return", text |-> text]
Raise(exception) == [kind |-> "raise", text |-> exception]

\* try/except without the except clause: the exception goes on to the caller.
Try_Propagates(body, handler) == body

\* try: body / except Exception: handler
Try(body, handler) == IF body.kind = "raise" THEN handler ELSE body

\* What the Ollama service does with a request: a long answer, an answer of
\* at most 100 characters, an HTTP error status, or no connection.
LLMOutcomes == {"content", "short_content", "non_200", "timeout", "connection_error"}

\* str(e) of the exception a failed request raises.
ErrorText(outcome) ==
    CASE outcome = "timeout" -> "timed out"
      [] outcome = "non_200" -> "model 'llama3.2' not found (status code: 404)"
      [] OTHER               -> "Connection refused"

\* The Ollama service as a front end finds it: `available` is
\* OllamaClient.available of the guest front end, `client` says that the
\* staff front end's OllamaClient.client is not None.
NoLLM == [available |-> FALSE, client |-> FALSE, outcome |-> "content"]

NoReply == [handler |-> "none", kind |-> "none", text |-> ""]

\* guest_interface_main.OllamaClient.generate_response
guest_generate_response(ollama_client) ==
    Try(CASE ollama_client.outcome \in {"content", "short_content"} -> Return("<llm content>")
          [] ollama_client.outcome = "non_200" ->
                 Return("I'm having trouble generating a response right now. Please try again.")
          [] OTHER -> Raise("RequestException"),
        Return("I encountered an error: <e>. Please try again."))

\* IntelligentHotelAgent.handle_llm_powered_questions: without a guest
\* profile personalized_prompt is never assigned and reading it raises.
handle_llm_powered_questions(ollama_client, guest_profile) ==
    Try(IF ~ollama_client.available
        THEN Return("I'm sorry, my AI knowledge system is not available right now. Please contact our staff for assistance.")
        ELSE IF guest_profile = NoGuest THEN Raise("UnboundLocalError")
        ELSE guest_generate_response(ollama_client),
        Return("I encountered an error while processing your question: <e>. Please try rephrasing your question."))

\* staff_interface_main.OllamaClient.generate_response
staff_generate_response(ollama_client) ==
    IF ~ollama_client.client
    THEN Return("Error: Ollama client not available. Please install ollama package and ensure Ollama is running.")
    ELSE Try(IF ollama_client.outcome \in {"content", "short_content"}
             THEN Return("<llm content>")
             ELSE Raise(ErrorText(ollama_client.outcome)),
             Return("Error generating response: <e>. Please ensure Ollama is running and the model is available."))

\* len(response.strip()) > 100 for what staff_generate_response returns; the
\* error text has 88 characters around str(e).
LongResponse(ollama_client) ==
    CASE ~ollama_client.client -> FALSE
      [] ollama_client.outcome = "content" -> TRUE
      [] ollama_client.outcome = "short_content" -> FALSE
      [] OTHER -> 88 + Len(ErrorText(ollama_client.outcome)) > 100

\* StaffInterface.generate_fallback_recommendations
generate_fallback_recommendations(guest_profile, rooms) ==
    IF guest_profile = NoGuest THEN Raise("AttributeError")
    ELSE Return("## Recommendations for <guest_name>")

\* StaffInterface.generate_personalized_recommendations_with_llm
generate_personalized_recommendations_with_llm(ollama_client, guest_profile, rooms) ==
    Try(IF ~ollama_client.client
        THEN generate_fallback_recommendations(guest_profile, rooms)
        ELSE IF guest_profile = NoGuest THEN Raise("AttributeError")
        ELSE IF LongResponse(ollama_client) THEN staff_generate_response(ollama_client)
        ELSE generate_fallback_recommendations(guest_profile, rooms),
        generate_fallback_recommendations(guest_profile, rooms))

\* StaffInterface.generate_room_recommendations_for_staff; the footer it
\* appends is not part of the text kept here.
generate_room_recommendations_for_staff(ollama_client, guest_profile, rooms) ==
    Try(IF rooms = <<>> THEN Return("No available rooms to recommend.")
        ELSE generate_personalized_recommendations_with_llm(ollama_client, guest_profile, rooms),
        Return("Error generating personalized recommendations: <e>"))


\* ------------------------------------------------- reading a chat message
\* extract_dates_from_message and extract_keywords_and_intent of
\* IntelligentHotelAgent (guest_interface_main.py); the staff front end reads
\* its messages the same way.

Char(text, i) == SubSeq(text, i, i)

\* rows[:k]
Take(rows, k) == SubSeq(rows, 1, IF Len(rows) < k THEN Len(rows) ELSE k)

IsDigitChar(c) == \E i \in DOMAIN Digit : Digit[i] = c

\* \b of a regular expression around the word characters at positions i..j:
\* no word character (\w) stands just before i or just after j.
WordBoundaries(text, i, j) ==
    LET IsWordChar(c) == IsDigitChar(c) \/ Contains(UpperCase \o LowerCase \o "_", c)
    IN  /\ i = 1 \/ ~IsWordChar(Char(text, i - 1))
        /\ j = Len(text) \/ ~IsWordChar(Char(text, j + 1))

\* int(num) of a string of digits.
RECURSIVE StrToInt(_)
StrToInt(num) ==
    IF num = "" THEN 0
    ELSE 10 * StrToInt(SubSeq(num, 1, Len(num) - 1))
             + (CHOOSE i \in DOMAIN Digit : Digit[i] = Char(num, Len(num))) - 1

\* re.findall(r'\b\d+\b', message) from position i on.
RECURSIVE FindNumbers(_, _)
FindNumbers(message, i) ==
    IF i > Len(message) THEN <<>>
    ELSE IF IsDigitChar(Char(message, i))
    THEN LET \* the last position of the run of digits that starts at i
             j == CHOOSE e \in i..Len(message) :
                      /\ \A k \in i..e : IsDigitChar(Char(message, k))
                      /\ e = Len(message) \/ ~IsDigitChar(Char(message, e + 1))
         IN
         (IF WordBoundaries(message, i, j) THEN <<SubSeq(message, i, j)>> ELSE <<>>)
             \o FindNumbers(message, j + 1)
    ELSE FindNumbers(message, i + 1)

\* re.findall(r'\b\d{4}-\d{2}-\d{2}\b', message) from position i on.
RECURSIVE FindIsoDates(_, _)
FindIsoDates(message, i) ==
    LET \* \d{4}-\d{2}-\d{2} on a string of ten characters
        IsoShape(t) ==
            /\ Len(t) = 10
            /\ \A k \in {1, 2, 3, 4, 6, 7, 9, 10} : IsDigitChar(Char(t, k))
            /\ Char(t, 5) = "-" /\ Char(t, 8) = "-"
    IN
    IF i + 9 > Len(message) THEN <<>>
    ELSE IF /\ IsoShape(SubSeq(message, i, i + 9))
            /\ WordBoundaries(message, i, i + 9)
    THEN <<SubSeq(message, i, i + 9)>> \o FindIsoDates(message, i + 10)
    ELSE FindIsoDates(message, i + 1)

\* str.strip() of blanks.
RECURSIVE Strip(_)
Strip(t) ==
    IF t = "" THEN ""
    ELSE IF Char(t, 1) = " " THEN Strip(SubSeq(t, 2, Len(t)))
    ELSE IF Char(t, Len(t)) = " " THEN Strip(SubSeq(t, 1, Len(t) - 1))
    ELSE t

\* The positions at which `word` occurs in `text`.
Occurrences(text, word) ==
    {i \in 1..(Len(text) - Len(word) + 1) : SubSeq(text, i, i + Len(word) - 1) = word}

\* parse_flexible_date: the date as '%Y-%m-%d', or "" for the None it
\* returns when dateutil raises.  The messages of the model write dates as
\* YYYY-MM-DD; dateutil reads such a string as that date, rejects a day the
\* month lacks, and rejects text with words it does not know.
parse_flexible_date(date_str) == IF strptime(date_str) # NoDate THEN date_str ELSE ""

\* The reading of the front end's clock.
Today == "2025-07-09"

\* The dates the three branches of extract_dates_from_message collect.
extracted_dates(message) ==
    IF Contains(message, " to ")
    THEN LET at == Occurrences(message, " to ") IN
         IF Cardinality(at) = 1
         THEN LET i == CHOOSE k \in at : TRUE
                  date1 == parse_flexible_date(Strip(SubSeq(message, 1, i - 1)))
                  date2 == parse_flexible_date(
                               Strip(SubSeq(message, i + 4, Len(message))))
              IN  IF date1 # "" /\ date2 # "" THEN <<date1, date2>> ELSE <<>>
         ELSE <<>>
    ELSE IF Contains(lower(message), "check-in") /\ Contains(lower(message), "check-out")
    THEN LET text == lower(message)
             ins  == Occurrences(text, "check-in:")
             outs == Occurrences(text, "check-out:")
         IN  IF ins = {} \/ outs = {} THEN <<>>
             ELSE LET i == CHOOSE k \in ins : \A o \in ins : k <= o
                      j == CHOOSE k \in outs : \A o \in outs : k >= o
                      commas == {k \in (i + 9)..(j - 1) : Char(text, k) = ","}
                      stop == IF commas = {} THEN j
                              ELSE CHOOSE k \in commas : \A o \in commas : k <= o
                      date1 == parse_flexible_date(Strip(SubSeq(text, i + 9, stop - 1)))
                      date2 == parse_flexible_date(Strip(SubSeq(text, j + 10, Len(text))))
                  IN  IF i < j /\ date1 # "" /\ date2 # "" THEN <<date1, date2>>
                      ELSE <<>>
    ELSE LET found == FindIsoDates(message, 1)
             parsed == [k \in DOMAIN found |-> parse_flexible_date(found[k])]
         IN  SelectSeq(parsed, LAMBDA d : d # "")

\* extract_dates_from_message: the extracted dates, then the dates the words
\* today, tomorrow (a day later) and next week (seven days later) stand for;
\* at most two dates.
extract_dates_from_message(message) ==
    LET relative_dates ==
            Append_If(Contains(lower(message), "today"), <<Today>>)
            \o Append_If(Contains(lower(message), "tomorrow"), <<"2025-07-10">>)
            \o Append_If(Contains(lower(message), "next week"), <<"2025-07-16">>)
    IN  Take(extracted_dates(message) \o relative_dates, 2)

\* What guests type into the chat.
Messages ==
    {"hello", "Book a room", "show rooms", "show rooms 2025-07-10 2025-07-12",
     "2025-07-10", "2025-07-12", "2025-07-10 to 2025-07-12", "2025-02-30",
     "101", "2"}

\* extract_keywords_and_intent, of each message.
extract_keywords_and_intent ==
    [message \in Messages |->
        LET found == FindNumbers(message, 1) IN
        [message_lower |-> lower(message),
         booking_keywords |->
             any({"book", "reserve", "reservation", "booking", "make", "create"},
                 lower(message)),
         numbers |-> [k \in DOMAIN found |-> StrToInt(found[k])],
         dates |-> extract_dates_from_message(message)]]

\* ------------------------------------------- the room recommendations
\* IntelligentHotelAgent.generate_guest_recommendations in
\* guest_interface_main.py.

\* Rooms a listing shows at most.
MaxRooms == 6

\* guest_benefits without the cap on the rationale list.
TopBenefits_Uncapped(guest_benefits) == guest_benefits

\* guest_benefits[:3]
TopBenefits(guest_benefits) == Take(guest_benefits, 3)

\* The rationale rules of one room, in the order the loop body applies them.
guest_benefits(guest_profile, room) ==
    LET loyalty          == guest_profile.loyalty_member
        previous_room    == lower(guest_profile.room_type)
        spending         == guest_profile.total_bill
        special_requests == lower(guest_profile.special_requests)
        amenities_used   == lower(guest_profile.amenities_used)
        purpose          == lower(guest_profile.purpose_of_visit)
        origin           == guest_profile.place_of_origin
        kind             == lower(room.RoomType)
        price            == room.Price
        matched ==
            Append_If(previous_room # "" /\ kind = previous_room, <<"previous_room">>)
            \o Append_If(loyalty \in {"Silver", "Gold"} /\ kind \in {"suite", "deluxe"},
                         <<"loyalty">>)
            \o (IF spending > 8000 /\ price > 5000 THEN <<"premium">>
                ELSE IF spending < 5000 /\ price < 4000 THEN <<"value">>
                ELSE <<>>)
            \o Append_If(Contains(special_requests, "extra bed")
                             /\ kind \in {"family", "suite"}, <<"extra_bed">>)
            \o Append_If(Contains(special_requests, "medicine"), <<"medicine">>)
            \o Append_If(Contains(amenities_used, "spa") /\ kind \in {"deluxe", "suite"},
                         <<"spa">>)
            \o Append_If(Contains(amenities_used, "gym"), <<"gym">>)
            \o Append_If(Contains(purpose, "business") /\ kind \in {"deluxe", "suite"},
                         <<"business">>)
            \o Append_If(Contains(purpose, "wedding") /\ kind = "suite", <<"wedding">>)
            \o Append_If(origin # "" /\ kind = "family", <<"origin">>)
    IN  IF matched = <<>> THEN <<"default_" \o kind>> ELSE matched

\* The recommendation the loop appends for one room.
Recommendation(guest_profile, room) ==
    [room_number |-> room.RoomNumber, price |-> room.Price,
     benefits |-> TopBenefits(guest_benefits(guest_profile, room))]

\* The generator run on the rooms get_all_rooms() returned: the list the loop
\* builds and the entries the response text shows.
generate_guest_recommendations(guest_profile, available_rooms_json) ==
    IF available_rooms_json = <<>>
    THEN [generated |-> TRUE, guest_profile |-> guest_profile,
          rooms |-> available_rooms_json, recommendations |-> <<>>,
          shown |-> <<>>, text |-> "No available rooms to recommend."]
    ELSE LET considered == Take(available_rooms_json, 5)
             recommendations ==
                 [i \in DOMAIN considered |->
                      Recommendation(guest_profile, considered[i])]
         IN  [generated |-> TRUE, guest_profile |-> guest_profile,
              rooms |-> available_rooms_json, recommendations |-> recommendations,
              shown |-> Take(recommendations, 3),
              text |-> "Personalized Room Recommendations"]

\* The profiles the generator is run on: a returning Gold guest on business
\* whom many rules fit, guests whom one rule fits, and a guest whom none fits.
GuestProfiles ==
    { [loyalty_member |-> "Gold", room_type |-> "Suite", total_bill |-> 12000,
       special_requests |-> "Extra bed, medicine", amenities_used |-> "Spa, Gym",
       purpose_of_visit |-> "Business", place_of_origin |-> "Kerala"],
      [loyalty_member |-> "Silver", room_type |-> "Deluxe", total_bill |-> 4000,
       special_requests |-> "", amenities_used |-> "Pool",
       purpose_of_visit |-> "Wedding", place_of_origin |-> ""],
      [loyalty_member |-> "New", room_type |-> "", total_bill |-> 6000,
       special_requests |-> "", amenities_used |-> "",
       purpose_of_visit |-> "Leisure", place_of_origin |-> ""] }

\* The room types a listing is made of.
ListedRoomTypes == <<"Suite", "Deluxe", "Double">>

\* The JSON of GET /rooms/available for a hotel of up to MaxRooms free rooms:
\* the rooms in file order, numbered from 101.
Listings ==
    UNION { { [i \in 1..k |->
                  [RoomNumber |-> 100 + i, RoomType |-> ListedRoomTypes[pick[i]],
                   Price |-> price_map(ListedRoomTypes[pick[i]])]]
              : pick \in [1..k -> DOMAIN ListedRoomTypes] }
            : k \in 0..MaxRooms }

\* guest_profile.get(key, default) of a profile with no column filled.
NoProfile ==
    [loyalty_member |-> "New", room_type |-> "", total_bill |-> 0,
     special_requests |-> "", amenities_used |-> "", purpose_of_visit |-> "",
     place_of_origin |-> ""]

NoRecs ==
    [generated |-> FALSE, guest_profile |-> NoProfile, rooms |-> <<>>,
     recommendations |-> <<>>, shown |-> <<>>, text |-> ""]

\* ------------------------------------------- the contextual booking tool
\* ContextAwareHotelMCPServer._contextual_room_booking in
\* hotel_mcp_sse_server.py, and the guest service it asks
\* (guest_profile_server.py).

\* GET /guest/by-id/{guest_id}: 404 unless the id is in the guest table.
get_guest_by_id(guest_id) ==
    IF guest_id \in GuestIds
    THEN [status_code |-> 200, guest_data |-> KnownGuest]
    ELSE [status_code |-> 404, guest_data |-> NoGuest]

\* requests.get on the guest service: its answer, or the exception requests
\* raises when the service cannot be reached.
GuestLookup(guest_id, reachable) ==
    IF reachable THEN Return(get_guest_by_id(guest_id))
    ELSE Raise("ConnectionError")

\* `guest_response.status_code != 200` taken as false for every answer.
LookupFailed_Never(guest_response) == FALSE

\* guest_response.status_code != 200
LookupFailed(guest_response) == guest_response.status_code # 200

\* _perform_deep_context_analysis of each record of the guest table, and of
\* an answer of the guest service that holds no guest.
GuestTableInsights ==
    [guest_data \in {KnownGuest, NoGuest} |->
         _perform_deep_context_analysis(guest_data)]

NoTool ==
    [calls |-> 0, guest_id |-> 0, lookup |-> 0, sent |-> FALSE,
     success |-> FALSE, error |-> "", loyalty_behavior |-> ""]

\* The tool from its first line to its return: what it returns, and the
\* ledger, file and response the booking server is left with.
_contextual_room_booking(d, f, args, reachable) ==
    LET guest_response == GuestLookup(args.guest_id, reachable) IN
    IF guest_response.kind = "raise"
    THEN [df |-> d, csv |-> f, sent |-> FALSE, lookup |-> 0, success |-> FALSE,
          error |-> "Contextual booking error: " \o guest_response.text,
          loyalty_behavior |-> ""]
    ELSE IF LookupFailed(guest_response.text)
    THEN [df |-> d, csv |-> f, sent |-> FALSE,
          lookup |-> guest_response.text.status_code, success |-> FALSE,
          error |-> "Could not retrieve guest context for booking",
          loyalty_behavior |-> ""]
    ELSE
        LET guest_data == guest_response.text.guest_data
            contextual_insights == GuestTableInsights[guest_data]
            booking_data == Request(args.room_number, args.guest_id,
                                    args.check_in_date, args.check_out_date)
            response == create_booking(d, f, booking_data)
        IN  IF response.resp.status = 200
            THEN [df |-> response.df, csv |-> response.csv, sent |-> TRUE,
                  resp |-> response.resp,
                  lookup |-> guest_response.text.status_code, success |-> TRUE,
                  error |-> "",
                  loyalty_behavior |->
                      contextual_insights.loyalty_behavior.spending_category]
            ELSE [df |-> response.df, csv |-> response.csv, sent |-> TRUE,
                  resp |-> response.resp,
                  lookup |-> guest_response.text.status_code, success |-> FALSE,
                  error |-> "Booking failed: HTTP "
                                \o IntToStr(response.resp.status),
                  loyalty_behavior |-> ""]

\* The guest ids the tool is called with: the guests of the table and one
\* the table does not hold.
ToolGuestIds == GuestIds \cup {77}

\* Tool calls a run follows.
MaxToolCalls == 2

\* ------------------------------------------------ the guest front end
\* IntelligentHotelAgent in guest_interface_main.py.  None is "" for a
\* string and 0 for a number; the empty dict {} is NoBooking.

\* st.session_state.progressive_booking = {}
NoBooking ==
    [active |-> FALSE, step |-> "", guest_id |-> 0, room_number |-> 0,
     check_in |-> "", check_out |-> "", adults |-> 0]

\* What the front end sent to POST /bookings/create, and the status it got.
NoPost == [sent |-> FALSE, booking_state |-> NoBooking, status |-> 0]

\* The rooms the dialogue listed for the guest to choose from, the dates it
\* listed them for, and the number of requests the server had handled then.
NoOffer == [rooms |-> <<>>, check_in |-> "", check_out |-> "", steps |-> 0]

\* init_session_state, with a record of the last message and its handling:
\* the handler that answered, its answer, the rooms the dialogue offered and
\* the booking the handler posted.
NoSession ==
    [connected |-> FALSE, current_guest_profile |-> 0,
     date_collection_step |-> "", pending_check_in |-> "", pending_check_out |-> "",
     last_search_dates |-> [check_in |-> "", check_out |-> ""], progressive_booking |-> NoBooking,
     turns |-> 0, message |-> "", route |-> "", answer |-> "",
     offered |-> NoOffer, post |-> NoPost]

\* The booking server after it handled the request whose result is r, as the
\* front end that sent the request leaves it.
Served(w, r) ==
    [w EXCEPT !.df = r.df, !.csv = r.csv, !.prev = Summary(w.resp),
              !.resp = r.resp, !.steps = w.steps + 1]

\* The answer a handler returns: the session it leaves and its reply.
Answer(w, route, answer) ==
    [w EXCEPT !.session.route = route, !.session.answer = answer]

\* get_all_rooms(check_in_date, check_out_date): the listing request the
\* front end sends, and the rows it reads from the answer ([] unless 200).
get_all_rooms(w, check_in_date, check_out_date) ==
    LET response == IF check_in_date # "" /\ check_out_date # ""
                    THEN available_rooms_for_dates(w.df, check_in_date, check_out_date)
                    ELSE available_rooms(w.df)
    IN  [w |-> Served(w, [df |-> w.df, csv |-> w.csv, resp |-> response]),
         rooms |-> IF response.status = 200 THEN response.rooms ELSE <<>>]

\* The body update_room_with_guest_info sends for the guest's own booking.
guest_room_update_data(booking_state) ==
    [availability |-> "Booked", guest_name |-> "Asha Rao",
     number_of_people |-> PeopleInt(booking_state.adults),
     check_in_date |-> booking_state.check_in,
     check_out_date |-> booking_state.check_out,
     extra_facility |-> Or(KnownGuest.special_requests, KnownGuest.amenities_used)]

\* update_room_with_guest_info: the PUT, and the fallback PUT when the first
\* is not answered with 200.
update_room_with_guest_info(w, room_number, payload) ==
    LET first == update_guest(w.df, w.csv, room_number, payload, "update_guest")
        w1 == Served(w, first)
    IN  IF first.resp.status = 200 THEN w1
        ELSE Served(w1, update_status(w1.df, w1.csv, room_number, payload,
                                      "update_status"))

\* missing_info of the dialogues and missing_fields of process_guest_booking:
\* the fields whose value is None, 0 or empty.
missing_info(booking_state) ==
    {field \in {"guest_id", "room_number", "check_in", "check_out", "adults"} :
        \/ field = "guest_id" /\ booking_state.guest_id = 0
        \/ field = "room_number" /\ booking_state.room_number = 0
        \/ field = "check_in" /\ booking_state.check_in = ""
        \/ field = "check_out" /\ booking_state.check_out = ""
        \/ field = "adults" /\ booking_state.adults = 0}

\* process_guest_booking
process_guest_booking(w, booking_state) ==
    LET reset == [w EXCEPT !.session.progressive_booking = NoBooking] IN
    IF w.session.current_guest_profile = 0
    THEN Answer(reset, "progressive_booking", "profile_not_found")
    ELSE IF missing_info(booking_state) # {}
    THEN Answer(w, "progressive_booking", "missing_information")
    ELSE
        LET booking_response ==
                create_booking(w.df, w.csv,
                               Request(booking_state.room_number, booking_state.guest_id,
                                       booking_state.check_in, booking_state.check_out))
            posted == [Served(reset, booking_response) EXCEPT
                          !.session.post = [sent |-> TRUE,
                                            booking_state |-> booking_state,
                                            status |-> booking_response.resp.status]]
        IN  IF booking_response.resp.status = 200
            THEN Answer(update_room_with_guest_info(
                            posted, booking_state.room_number,
                            guest_room_update_data(booking_state)),
                        "progressive_booking", "booking_confirmed")
            ELSE Answer(posted, "progressive_booking", "booking_failed")

\* One pass of the loop over intent['numbers'].
collect_number(booking_state, num_int) ==
    IF booking_state.step = "room_number" /\ booking_state.room_number = 0
    THEN [booking_state EXCEPT !.room_number = num_int]
    ELSE IF booking_state.step = "adults" /\ booking_state.adults = 0
    THEN [booking_state EXCEPT !.adults = num_int]
    ELSE booking_state

\* for num in intent['numbers'], from the i-th number on.
RECURSIVE collect_numbers(_, _, _)
collect_numbers(booking_state, numbers, i) ==
    IF i > Len(numbers) THEN booking_state
    ELSE collect_numbers(collect_number(booking_state, numbers[i]), numbers, i + 1)

\* The dates of a message stored whether or not a date is already held.
collect_dates_Overwrites(booking_state, dates) ==
    IF dates = <<>> THEN booking_state
    ELSE IF Len(dates) > 1
    THEN [booking_state EXCEPT !.check_in = dates[1], !.check_out = dates[2]]
    ELSE IF booking_state.check_out # "" \/ booking_state.check_in = ""
    THEN [booking_state EXCEPT !.check_in = dates[1]]
    ELSE [booking_state EXCEPT !.check_out = dates[1]]

\* if intent['dates']: the if/elif chain that stores a date of the message.
collect_dates(booking_state, dates) ==
    IF dates = <<>> THEN booking_state
    ELSE IF booking_state.check_in = ""
    THEN [booking_state EXCEPT !.check_in = dates[1]]
    ELSE IF booking_state.check_out = "" /\ Len(dates) > 1
    THEN [booking_state EXCEPT !.check_out = dates[2]]
    ELSE IF booking_state.check_out = ""
    THEN [booking_state EXCEPT !.check_out = dates[1]]
    ELSE booking_state

\* handle_progressive_booking of the guest front end.  `recent` tells
\* whether the last room search is less than 30 minutes old.
handle_progressive_booking(w, intent, recent) ==
    LET s  == w.session
        b0 == IF s.progressive_booking.active THEN s.progressive_booking
              ELSE [NoBooking EXCEPT !.active = TRUE, !.step = "start"]
        b1 == IF /\ b0.check_in = "" /\ b0.check_out = ""
                 /\ s.last_search_dates.check_in # "" /\ recent
              THEN [b0 EXCEPT !.check_in = s.last_search_dates.check_in,
                              !.check_out = s.last_search_dates.check_out]
              ELSE b0
        b2 == IF s.current_guest_profile # 0 /\ b1.guest_id = 0
              THEN [b1 EXCEPT !.guest_id = s.current_guest_profile]
              ELSE b1
        b3 == collect_numbers(b2, intent.numbers, 1)
        b4 == collect_dates(b3, intent.dates)
        missing == missing_info(b4)
        Kept(b) == [w EXCEPT !.session.progressive_booking = b]
        Asked(step, answer) ==
            Answer(Kept([b4 EXCEPT !.step = step]), "progressive_booking", answer)
    IN  IF missing = {} THEN process_guest_booking(Kept(b4), b4)
        ELSE IF "guest_id" \in missing
        THEN Answer(Kept(b4), "progressive_booking", "load_profile")
        ELSE IF "room_number" \in missing
        THEN IF b4.check_in # "" /\ b4.check_out # ""
             THEN LET listing == get_all_rooms(Kept([b4 EXCEPT !.step = "room_number"]),
                                               b4.check_in, b4.check_out)
                  IN  IF listing.rooms # <<>>
                      THEN Answer([listing.w EXCEPT !.session.offered =
                                       [rooms |-> Take(listing.rooms, 8),
                                        check_in |-> b4.check_in,
                                        check_out |-> b4.check_out,
                                        steps |-> listing.w.steps]],
                                  "progressive_booking", "offer_rooms")
                      ELSE Answer([listing.w EXCEPT
                                       !.session.progressive_booking = NoBooking],
                                  "progressive_booking", "no_rooms")
             ELSE Asked("room_number", "ask_room_number")
        ELSE IF "check_in" \in missing THEN Asked("check_in", "ask_check_in")
        ELSE IF "check_out" \in missing THEN Asked("check_out", "ask_check_out")
        ELSE Asked("adults", "ask_adults")

\* handle_room_availability
handle_room_availability(w, dates) ==
    LET s == w.session
        Restart(answer) ==
            Answer([w EXCEPT !.session.pending_check_in = "",
                             !.session.pending_check_out = "",
                             !.session.date_collection_step = "check_in"],
                   "room_availability", answer)
    IN  IF Len(dates) < 2 /\ s.pending_check_in = ""
        THEN Answer([w EXCEPT !.session.date_collection_step = "check_in"],
                    "room_availability", "ask_dates")
        ELSE IF Len(dates) < 2 /\ s.pending_check_out = ""
        THEN Answer([w EXCEPT !.session.date_collection_step = "check_out"],
                    "room_availability", "ask_check_out")
        ELSE IF Len(dates) = 1 /\ s.pending_check_in = ""
        THEN Answer([w EXCEPT !.session.pending_check_in = dates[1]],
                    "room_availability", "check_in_recorded")
        ELSE
            LET check_in_date  == IF Len(dates) >= 2 THEN dates[1] ELSE s.pending_check_in
                check_out_date == IF Len(dates) >= 2 THEN dates[2]
                                  ELSE IF Len(dates) = 1 THEN dates[1]
                                  ELSE s.pending_check_out
                checkin_dt  == strptime(check_in_date)
                checkout_dt == strptime(check_out_date)
            IN  IF checkin_dt = NoDate \/ checkout_dt = NoDate
                THEN Restart("invalid_date_format")
                ELSE IF checkout_dt <= checkin_dt
                THEN Restart("check_out_not_after_check_in")
                ELSE IF checkin_dt <= strptime(Today)
                THEN Restart("check_in_in_the_past")
                ELSE
                    LET cleared == [w EXCEPT !.session.pending_check_in = "",
                                             !.session.pending_check_out = "",
                                             !.session.date_collection_step = ""]
                        listing == get_all_rooms(cleared, check_in_date, check_out_date)
                    IN  IF listing.rooms # <<>>
                        THEN Answer([listing.w EXCEPT !.session.last_search_dates =
                                         [check_in |-> check_in_date,
                                          check_out |-> check_out_date]],
                                    "room_availability", "rooms_listed")
                        ELSE Answer(listing.w, "room_availability", "no_rooms")

\* The keyword tests of the router's elif chain.
keywords ==
    [message \in Messages |->
        LET text == lower(message)
            \* len(message.split()): the number of runs of non-blank characters
            word_count ==
                Cardinality({i \in 1..Len(message) :
                                /\ Char(message, i) # " "
                                /\ (i = 1 \/ Char(message, i - 1) = " ")})
        IN
        [recommend |->
             any({"recommend", "recommendation", "suggest", "which room", "best room",
                  "previous stay", "based on my"}, text),
         availability |->
             any({"available rooms", "show rooms", "room availability", "what rooms"}, text),
         standalone_date |->
             /\ word_count <= 4
             /\ any({"july", "august", "september", "october", "november", "december",
                     "january", "february", "march", "april", "may", "june", "today",
                     "tomorrow", "next"}, text)
             /\ ~any({"recommend", "book", "available", "show"}, text),
         load_profile |-> Contains(text, "load my profile")]]

\* The router of intelligent_handler: the if/elif chain from the booking
\* route to the LLM.  It is reached with date_collection_step unset.
route_message(w, message, recent) ==
    LET s == w.session
        intent == extract_keywords_and_intent[message]
        words == keywords[message]
    IN  IF \/ /\ intent.booking_keywords
              /\ \/ intent.numbers = <<>>
                 \/ Len(intent.numbers) < 2
                 \/ intent.dates = <<>>
           \/ s.progressive_booking.active
        THEN handle_progressive_booking(w, intent, recent)
        ELSE IF words.recommend
        THEN IF s.current_guest_profile = 0
             THEN Answer(w, "recommendations", "load_profile")
             ELSE Answer(get_all_rooms(w, "", "").w, "recommendations", "recommended")
        ELSE IF words.availability
        THEN handle_room_availability(w, intent.dates)
        ELSE IF words.standalone_date
        THEN Answer(w, "llm", "llm_response")
        ELSE IF s.current_guest_profile # 0 /\ words.load_profile
        THEN Answer(w, "profile_lookup", "profile")
        ELSE Answer(w, "llm", "llm_response")

\* The dates handle_room_availability extracts from the message the date
\* collection hands it: f"Show available rooms from {check_in} to {check_out}".
SearchDates ==
    LET DatesSaid ==
            UNION {{extract_keywords_and_intent[message].dates[k] : k \in DOMAIN extract_keywords_and_intent[message].dates} :
                       message \in Messages}
    IN  [check_in \in DatesSaid, check_out \in DatesSaid |->
             extract_dates_from_message(
                 "Show available rooms from " \o check_in \o " to " \o check_out)]

\* A message without a date, taken as the end of the date collection.
no_date_answer_LeavesCollection(w) ==
    Answer([w EXCEPT !.session.date_collection_step = "",
                     !.session.pending_check_in = "",
                     !.session.pending_check_out = ""],
           "date_collection", "date_format_error")

\* return {"response": "I couldn't understand that date format. ..."}
no_date_answer(w) == Answer(w, "date_collection", "date_format_error")

\* intelligent_handler: the connection test, the date collection that is
\* pending, and the router.  The elif that clears a pending date collection
\* tests the condition of the if before it and is never taken.
intelligent_handler(w, message, recent) ==
    LET s == w.session
        dates == extract_keywords_and_intent[message].dates
    IN  IF ~s.connected THEN Answer(w, "none", "connect_first")
        ELSE IF s.date_collection_step = "check_in"
        THEN IF dates # <<>>
             THEN Answer([w EXCEPT !.session.pending_check_in = dates[1],
                                   !.session.date_collection_step = "check_out"],
                         "date_collection", "check_in_recorded")
             ELSE no_date_answer(w)
        ELSE IF s.date_collection_step = "check_out"
        THEN IF dates # <<>>
             THEN handle_room_availability(
                      [w EXCEPT !.session.pending_check_out = dates[1],
                                !.session.date_collection_step = ""],
                      SearchDates[s.pending_check_in, dates[1]])
             ELSE no_date_answer(w)
        ELSE route_message(w, message, recent)

\* Messages of the guest a run follows.
MaxTurns == 4

\* Messages of the staff a run follows: a booking takes six.
MaxStaffTurns == 6

\* ------------------------------------------------ the staff front end
\* StaffInterface in staff_interface_main.py.

\* st.session_state.progressive_booking = {} of the staff front end, with
\* the same record of the last message and its handling.
NoDesk ==
    [progressive_booking |-> NoBooking, turns |-> 0, message |-> "", route |-> "",
     answer |-> "", offered |-> NoOffer, post |-> NoPost]

\* What staff type into the chat.
StaffMessages ==
    {"hello", "Book a room", "show rooms", "1", "101", "2", "2025-07-10",
     "2025-07-12"}

\* extract_keywords_and_intent of the staff front end: the dates are the
\* matches of the pattern, parsed by nobody.
staff_extract_keywords_and_intent ==
    [message \in StaffMessages |->
        LET found == FindNumbers(message, 1)
            text == lower(message)
        IN  [message_lower |-> text,
             booking_keywords |->
                 any({"book", "reserve", "reservation", "booking", "make", "create"}, text),
             room_keywords |->
                 any({"room", "rooms", "accommodation", "suite", "deluxe", "family"}, text),
             list_keywords |-> any({"all", "list", "show", "display", "view"}, text),
             guest_keywords |->
                 any({"guest", "guests", "customer", "customers", "visitor", "visitors"},
                     text),
             numbers |-> [k \in DOMAIN found |-> StrToInt(found[k])],
             dates |-> FindIsoDates(message, 1)]]

\* One pass of the staff dialogue's loop over intent['numbers'].
staff_collect_number(booking_state, num_int) ==
    IF booking_state.step = "guest_id" /\ booking_state.guest_id = 0
    THEN [booking_state EXCEPT !.guest_id = num_int]
    ELSE IF booking_state.step = "room_number" /\ booking_state.room_number = 0
    THEN [booking_state EXCEPT !.room_number = num_int]
    ELSE IF booking_state.step = "adults" /\ booking_state.adults = 0
    THEN [booking_state EXCEPT !.adults = num_int]
    ELSE booking_state

RECURSIVE staff_collect_numbers(_, _, _)
staff_collect_numbers(booking_state, numbers, i) ==
    IF i > Len(numbers) THEN booking_state
    ELSE staff_collect_numbers(staff_collect_number(booking_state, numbers[i]),
                               numbers, i + 1)

\* The try block that runs when nothing is missing: guest lookup, booking,
\* room update.
staff_process_booking(w, booking_state, reachable) ==
    LET reset == [w EXCEPT !.session.progressive_booking = NoBooking]
        guest_response == GuestLookup(booking_state.guest_id, reachable)
    IN  IF guest_response.kind = "raise"
        THEN Answer(reset, "progressive_booking", "error_processing_booking")
        ELSE IF guest_response.text.status_code # 200
        THEN Answer(reset, "progressive_booking", "guest_not_found")
        ELSE
            LET booking_response ==
                    create_booking(w.df, w.csv,
                                   Request(booking_state.room_number,
                                           booking_state.guest_id,
                                           booking_state.check_in,
                                           booking_state.check_out))
                posted == [Served(reset, booking_response) EXCEPT
                              !.session.post = [sent |-> TRUE,
                                                booking_state |-> booking_state,
                                                status |-> booking_response.resp.status]]
            IN  IF booking_response.resp.status = 200
                THEN Answer(update_room_with_guest_info(
                                posted, booking_state.room_number,
                                guest_room_update_data(booking_state)),
                            "progressive_booking", "booking_confirmed")
                ELSE Answer(posted, "progressive_booking", "booking_failed")

\* handle_progressive_booking of the staff front end.
staff_handle_progressive_booking(w, intent, reachable) ==
    LET s  == w.session
        b0 == IF s.progressive_booking.active THEN s.progressive_booking
              ELSE [NoBooking EXCEPT !.active = TRUE, !.step = "start"]
        b1 == staff_collect_numbers(b0, intent.numbers, 1)
        b2 == collect_dates(b1, intent.dates)
        missing == missing_info(b2)
        Kept(b) == [w EXCEPT !.session.progressive_booking = b]
        Asked(step, answer) ==
            Answer(Kept([b2 EXCEPT !.step = step]), "progressive_booking", answer)
    IN  IF missing = {} THEN staff_process_booking(Kept(b2), b2, reachable)
        ELSE IF "guest_id" \in missing THEN Asked("guest_id", "ask_guest_id")
        ELSE IF "room_number" \in missing
        THEN LET listing == get_all_rooms(Kept([b2 EXCEPT !.step = "room_number"]),
                                          "", "")
             IN  IF listing.rooms # <<>>
                 THEN Answer([listing.w EXCEPT !.session.offered =
                                  [rooms |-> Take(listing.rooms, 8), check_in |-> "",
                                   check_out |-> "", steps |-> listing.w.steps]],
                             "progressive_booking", "offer_rooms")
                 ELSE Answer([listing.w EXCEPT
                                  !.session.progressive_booking = NoBooking],
                             "progressive_booking", "no_rooms")
        ELSE IF "check_in" \in missing THEN Asked("check_in", "ask_check_in")
        ELSE IF "check_out" \in missing THEN Asked("check_out", "ask_check_out")
        ELSE Asked("adults", "ask_adults")

\* handle_staff_chat: the dialogue, the room list, and the help text for a
\* message that is no command.  The other commands of the chat (guest lists
\* and searches, freeing a room, the one-line booking) take messages that
\* StaffMessages does not hold.
handle_staff_chat(w, message, reachable) ==
    LET intent == staff_extract_keywords_and_intent[message] IN
    IF \/ /\ intent.booking_keywords
          /\ \/ intent.numbers = <<>>
             \/ Len(intent.numbers) < 2
             \/ intent.dates = <<>>
       \/ w.session.progressive_booking.active
    THEN staff_handle_progressive_booking(w, intent, reachable)
    ELSE IF \/ intent.room_keywords /\ intent.list_keywords
            \/ Contains(intent.message_lower, "all room")
            \/ Contains(intent.message_lower, "show room")
            \/ Contains(intent.message_lower, "available room")
    THEN Answer(get_all_rooms(w, "", "").w, "rooms", "rooms_listed")
    ELSE Answer(w, "help", "how_can_i_assist")

\* ------------------------------------------------------------------- state

LedgerLoaded ==
    /\ df \in [RoomNumbers -> UNION {LoadedRows(n) : n \in RoomNumbers}]
    /\ \A n \in RoomNumbers : df[n] \in LoadedRows(n)
    /\ csv = df
    /\ resp = NoResponse
    /\ prev = Summary(NoResponse)
    /\ steps = 0
    /\ inflight = {}
    /\ done = [c \in Clients |-> [seen_available |-> FALSE, resp |-> NoResponse]]

\* No front end has been used yet.
FrontEndsIdle ==
    /\ recs = NoRecs
    /\ tool = NoTool
    /\ session = NoSession
    /\ desk = NoDesk

Init ==
    /\ LedgerLoaded
    /\ guest = NoGuest
    /\ insights = NoInsights
    /\ llm = NoLLM
    /\ reply = NoReply
    /\ FrontEndsIdle

\* The server handles one request to its end: r is what the handler leaves.
Handled(r) ==
    /\ steps < MaxOps
    /\ df' = r.df
    /\ csv' = r.csv
    /\ resp' = r.resp
    /\ prev' = Summary(resp)
    /\ steps' = steps + 1
    /\ UNCHANGED <<guest, insights, llm, reply, frontends>>

Read(r) == Handled([df |-> df, csv |-> csv, resp |-> r])

CreateBooking ==
    \E n \in RoomInputs, g \in GuestIds, dates \in BookingDates :
        /\ Handled(create_booking(df, csv, Request(n, g, dates[1], dates[2])))
        /\ UNCHANGED <<inflight, done>>

UpdateGuest ==
    \E n \in RoomInputs, payload \in Payloads :
        /\ Handled(update_guest(df, csv, n, payload, "update_guest"))
        /\ UNCHANGED <<inflight, done>>

\* StaffInterface.free_room(room_number)
StaffFreeRoom ==
    \E n \in RoomInputs :
        /\ Handled(update_status(df, csv, n, free_room_data, "free_room"))
        /\ UNCHANGED <<inflight, done>>

CancelBooking ==
    \E n \in RoomInputs :
        /\ Handled(cancel_booking(df, csv, n))
        /\ UNCHANGED <<inflight, done>>

AvailableRooms ==
    /\ Read(available_rooms(df))
    /\ UNCHANGED <<inflight, done>>

AvailableRoomsForDates ==
    \E check_in \in ListingCheckIn, check_out \in ListingCheckOut :
        /\ Read(available_rooms_for_dates(df, check_in, check_out))
        /\ UNCHANGED <<inflight, done>>

AvailableRoomsForDatesWithUpselling ==
    \E check_in \in ListingCheckIn, check_out \in ListingCheckOut :
        /\ Read(available_rooms_for_dates_with_upselling(df, check_in, check_out))
        /\ UNCHANGED <<inflight, done>>

AvailableRoomsWithUpselling ==
    \E markup_percentage \in Markups :
        /\ Read(available_rooms_with_upselling(df, markup_percentage))
        /\ UNCHANGED <<inflight, done>>

Next ==
    \/ StaffFreeRoom
    \/ CreateBooking
    \/ UpdateGuest
    \/ CancelBooking
    \/ AvailableRooms
    \/ AvailableRoomsForDates
    \/ AvailableRoomsForDatesWithUpselling
    \/ AvailableRoomsWithUpselling

Spec == Init /\ [][Next]_vars

\* ------------------------------------------- two clients booking at once

\* A front end posts a booking; the request waits for the event loop.  The
\* client notes whether the room was Available when it sent the request.
SendBooking(c) ==
    \E n \in RoomNumbers, g \in GuestIds, dates \in BookingDates :
        /\ done[c].resp = NoResponse
        /\ \A q \in inflight : q.client # c
        /\ inflight' = inflight \cup
               {[client |-> c, booking |-> Request(n, g, dates[1], dates[2]),
                 seen_available |-> IsAvailable(df[n])]}
        /\ UNCHANGED <<df, csv, resp, prev, steps, done, guest, insights, llm, reply,
                       frontends>>

\* The event loop takes any waiting request and runs create_booking on it.
ServeBooking(c) ==
    \E q \in inflight :
        /\ q.client = c
        /\ LET r == create_booking(df, csv, q.booking) IN
               /\ Handled(r)
               /\ done' = [done EXCEPT ![c] =
                              [seen_available |-> q.seen_available, resp |-> r.resp]]
        /\ inflight' = inflight \ {q}

NextRace == \E c \in Clients : SendBooking(c) \/ ServeBooking(c)

SpecRace == Init /\ [][NextRace]_vars

\* --------------------------------------- partial updates of a room's row

\* Number of update requests SpecUpdate follows.
MaxUpdates == 1

\* PUT /rooms/{n}/update-guest-info with any body a client can send.
UpdateGuestInfo ==
    \E n \in RoomInputs, payload \in PartialPayloads :
        /\ steps < MaxUpdates
        /\ Handled(update_guest(df, csv, n, payload, "update_guest"))
        /\ UNCHANGED <<inflight, done>>

SpecUpdate == Init /\ [][UpdateGuestInfo]_vars

\* --------------------------------------------- analysing a guest record

\* The ledger is as loaded, every room free; a guest record has been fetched
\* from the guest service.
InitContext ==
    /\ LedgerLoaded
    /\ \A n \in RoomNumbers : IsAvailable(df[n]) /\ df[n].Reserved = "No"
    /\ guest \in Guests
    /\ insights = NoInsights
    /\ llm = NoLLM
    /\ reply = NoReply
    /\ FrontEndsIdle

\* Tool analyze_guest_context_deeply on the record the caller holds.
AnalyzeGuestContextDeeply ==
    /\ insights = NoInsights
    /\ insights' = _perform_deep_context_analysis(guest)
    /\ UNCHANGED <<df, csv, resp, prev, steps, inflight, done, guest, llm, reply,
                   frontends>>

SpecContext == InitContext /\ [][AnalyzeGuestContextDeeply]_vars

\* ------------------------------------------- asking the LLM-backed handlers

\* The ledger is as loaded and the Ollama service is in any condition; the
\* chat has a guest profile or none.
InitChat ==
    /\ LedgerLoaded
    /\ guest \in {NoGuest, KnownGuest}
    /\ insights = NoInsights
    /\ llm \in [available : BOOLEAN, client : BOOLEAN, outcome : LLMOutcomes]
    /\ reply = NoReply
    /\ FrontEndsIdle

\* The guest front end routes a question to handle_llm_powered_questions.
GuestChat ==
    /\ LET r == handle_llm_powered_questions(llm, guest)
       IN  reply' = [handler |-> "guest", kind |-> r.kind, text |-> r.text]
    /\ UNCHANGED <<df, csv, resp, prev, steps, inflight, done, guest, insights, llm,
                   frontends>>

\* The staff front end shows a guest's profile with room recommendations:
\* it has fetched the profile, and asks the ledger for the available rooms.
StaffChat ==
    /\ guest # NoGuest
    /\ LET r == generate_room_recommendations_for_staff(llm, guest,
                                                        available_rooms(df).rooms)
       IN  reply' = [handler |-> "staff", kind |-> r.kind, text |-> r.text]
    /\ UNCHANGED <<df, csv, resp, prev, steps, inflight, done, guest, insights, llm,
                   frontends>>

NextChat ==
    \/ GuestChat
    \/ StaffChat

SpecChat == InitChat /\ [][NextChat]_vars

\* ------------------------------------------- recommending rooms to a guest

\* The ledger is as loaded, every room free; nothing has been recommended.
InitRecommend ==
    /\ LedgerLoaded
    /\ \A n \in RoomNumbers : IsAvailable(df[n]) /\ df[n].Reserved = "No"
    /\ guest = NoGuest
    /\ insights = NoInsights
    /\ llm = NoLLM
    /\ reply = NoReply
    /\ FrontEndsIdle

\* handle_personalized_recommendations for a loaded profile: the generator
\* runs on the listing GET /rooms/available answered with.
GenerateGuestRecommendations ==
    \E guest_profile \in GuestProfiles, rooms \in Listings :
        /\ ~recs.generated
        /\ recs' = generate_guest_recommendations(guest_profile, rooms)
        /\ UNCHANGED <<df, csv, resp, prev, steps, inflight, done, guest, insights,
                       llm, reply, tool, session, desk>>

SpecRecommend == InitRecommend /\ [][GenerateGuestRecommendations]_vars

\* --------------------------------------------- booking through the tool

\* An MCP client calls contextual_room_booking; the guest service is up or
\* down.  The booking server handles the tool's POST, if one is sent, as it
\* handles any other request.
ContextualRoomBooking ==
    \E guest_id \in ToolGuestIds, n \in RoomInputs, dates \in BookingDates,
       reachable \in BOOLEAN :
        LET args == [guest_id |-> guest_id, room_number |-> n,
                     check_in_date |-> dates[1], check_out_date |-> dates[2]]
            r == _contextual_room_booking(df, csv, args, reachable)
        IN  /\ tool.calls < MaxToolCalls
            /\ tool' = [calls |-> tool.calls + 1, guest_id |-> guest_id,
                        lookup |-> r.lookup, sent |-> r.sent,
                        success |-> r.success, error |-> r.error,
                        loyalty_behavior |-> r.loyalty_behavior]
            /\ df' = r.df
            /\ csv' = r.csv
            /\ IF r.sent
               THEN /\ resp' = r.resp
                    /\ prev' = Summary(resp)
                    /\ steps' = steps + 1
               ELSE UNCHANGED <<resp, prev, steps>>
            /\ UNCHANGED <<inflight, done, guest, insights, llm, reply,
                           recs, session, desk>>

SpecTool == Init /\ [][ContextualRoomBooking]_vars

\* ------------------------------------------------- talking to the front ends

\* The ledger is as loaded; the guest front end is connected to the MCP
\* server or not, and the guest has loaded a profile or not.
InitDialogue ==
    /\ LedgerLoaded
    /\ guest = NoGuest
    /\ insights = NoInsights
    /\ llm = NoLLM
    /\ reply = NoReply
    /\ recs = NoRecs
    /\ tool = NoTool
    /\ session \in {[NoSession EXCEPT !.connected = c, !.current_guest_profile = g] :
                        c \in BOOLEAN, g \in {0, 1}}
    /\ desk = NoDesk

\* The guest types a message; intelligent_handler answers it, sending the
\* requests it sends to the booking server.  A run follows the chat of one
\* front end: the guest's, or the staff's.
GuestSays ==
    /\ desk.turns = 0
    /\ session.turns < MaxTurns
    /\ \E message \in Messages, recent \in BOOLEAN :
        \E w1 \in {intelligent_handler(
                        [session |-> [session EXCEPT !.turns = session.turns + 1,
                                                     !.message = message,
                                                     !.post = NoPost],
                         df |-> df, csv |-> csv, resp |-> resp, prev |-> prev,
                         steps |-> steps],
                        message, recent)} :
            /\ session' = IF w1.session.progressive_booking.active THEN w1.session
                          ELSE [w1.session EXCEPT !.offered = NoOffer]
            /\ df' = w1.df
            /\ csv' = w1.csv
            /\ resp' = w1.resp
            /\ prev' = w1.prev
            /\ steps' = w1.steps
            /\ UNCHANGED <<inflight, done, guest, insights, llm, reply, recs, tool, desk>>

\* A member of staff types a message; handle_staff_chat answers it.
StaffSays ==
    /\ session.turns = 0
    /\ desk.turns < MaxStaffTurns
    /\ \E message \in StaffMessages, reachable \in BOOLEAN :
        \E w1 \in {handle_staff_chat(
                        [session |-> [desk EXCEPT !.turns = desk.turns + 1,
                                                  !.message = message,
                                                  !.post = NoPost],
                         df |-> df, csv |-> csv, resp |-> resp, prev |-> prev,
                         steps |-> steps],
                        message, reachable)} :
            /\ desk' = IF w1.session.progressive_booking.active THEN w1.session
                       ELSE [w1.session EXCEPT !.offered = NoOffer]
            /\ df' = w1.df
            /\ csv' = w1.csv
            /\ resp' = w1.resp
            /\ prev' = w1.prev
            /\ steps' = w1.steps
            /\ UNCHANGED <<inflight, done, guest, insights, llm, reply, recs, tool,
                           session>>

NextDialogue ==
    \/ GuestSays
    \/ StaffSays

SpecDialogue == InitDialogue /\ [][NextDialogue]_vars

\* ------------------------------------------------------------- vocabulary

\* The five guest columns of a row are empty.
GuestFieldsEmpty(row) ==
    /\ row.NameOfGuest = ""
    /\ row.NumberOfPeople = ""
    /\ row.CheckIn = ""
    /\ row.CheckOut = ""
    /\ row.ExtraFacility = ""

\* The calendar, written out: the dates of the model in calendar order and
\* the days from the first of them to each.
Calendar ==
    << <<"2025-07-09", 0>>, <<"2025-07-10", 1>>, <<"2025-07-12", 3>>,
       <<"2025-08-01", 23>>, <<"2025-08-04", 26>> >>

IsCalendarDate(s) == \E i \in DOMAIN Calendar : Calendar[i][1] = s

DayOf(s) == Calendar[CHOOSE i \in DOMAIN Calendar : Calendar[i][1] = s][2]

OnOrBefore(a, b) == IsCalendarDate(a) /\ IsCalendarDate(b) /\ DayOf(a) <= DayOf(b)

\* The step just taken handled a request of handler op.
Handles(op) == steps' = steps + 1 /\ resp'.op = op

\* The last two requests were op1 (answered 200) on a room and then op2.
Followed(op1, op2) == prev.op = op1 /\ prev.status = 200 /\ resp.op = op2

\* ------------------------------------------------------------------ claims

\* C1: every room is Available exactly when its guest name, number of
\* people, check-in, check-out and extra-facility columns are all empty,
\* and a Booked room has a guest name.
C1_LedgerInvariant ==
    \A n \in DOMAIN df :
        /\ (df[n].Availability = "Available") <=> GuestFieldsEmpty(df[n])
        /\ (df[n].Availability = "Booked") => df[n].NameOfGuest # ""

\* C2: two bookings of the same room, both sent while the room was
\* Available, end with one success (200) and one "Room is not available"
\* (400) once both are answered.
C2_ExactlyOneSuccess ==
    \A c1, c2 \in Clients :
        ( /\ c1 # c2
          /\ done[c1].resp.op = "create_booking"
          /\ done[c2].resp.op = "create_booking"
          /\ done[c1].resp.room = done[c2].resp.room
          /\ done[c1].seen_available
          /\ done[c2].seen_available )
        => {done[c1].resp.status, done[c2].resp.status} = {200, 400}

\* C2, the part the handler's atomicity gives: two such bookings are never
\* both answered 200, and at least one of them is answered 400.
C2_NeverTwoSuccesses ==
    \A c1, c2 \in Clients :
        ( /\ c1 # c2
          /\ done[c1].resp.op = "create_booking"
          /\ done[c2].resp.op = "create_booking"
          /\ done[c1].resp.room = done[c2].resp.room
          /\ done[c1].seen_available
          /\ done[c2].seen_available )
        => /\ ~(done[c1].resp.status = 200 /\ done[c2].resp.status = 200)
           /\ 400 \in {done[c1].resp.status, done[c2].resp.status}

\* C3: the listing of /rooms/available that directly follows a successful
\* create_booking on room n does not contain n.
C3_BookedRoomNotListed ==
    Followed("create_booking", "available_rooms")
        => ~InList(prev.room, resp.rooms)

C3_Witness ==
    /\ Followed("create_booking", "available_rooms")
    /\ resp.rooms # <<>>

C5_StaffFreeRoomClears ==
    (resp.op = "free_room" /\ resp.status = 200)
        => /\ df[resp.room].Availability = "Available"
           /\ GuestFieldsEmpty(df[resp.room])

\* C6: cancel_booking on a room that is already Available is answered 200
\* and leaves every row as it was.
C6_FreeRoomIdempotent ==
    [][ ( /\ Handles("cancel_booking")
          /\ resp'.room \in DOMAIN df
          /\ df[resp'.room].Availability = "Available" )
        => (resp'.status = 200 /\ df' = df) ]_vars

\* C7: create_booking answers 404 when the room is not in the ledger, 400
\* when the room is not Available, and otherwise answers 200 and leaves the
\* room Booked with the label Guest_<guest_id> and the requested dates.
C7_CreateBookingOutcome ==
    [][ Handles("create_booking") =>
          LET b == resp'.req IN
          IF b.room \notin DOMAIN df THEN resp'.status = 404
          ELSE IF df[b.room].Availability # "Available" THEN resp'.status = 400
          ELSE /\ resp'.status = 200
               /\ df'[b.room].Availability = "Booked"
               /\ df'[b.room].NameOfGuest = "Guest_" \o IntToStr(b.guest_id)
               /\ df'[b.room].CheckIn = b.check_in
               /\ df'[b.room].CheckOut = b.check_out ]_vars

\* C8: create_booking answers 200 only when both dates are calendar dates
\* and the check-out is after the check-in; any other request for a room
\* that is Available is refused (400) and the room's row stays as it was.
C8_InvalidDateRangeRejected ==
    [][ Handles("create_booking") =>
          LET b == resp'.req
              valid == /\ IsCalendarDate(b.check_in)
                       /\ IsCalendarDate(b.check_out)
                       /\ DayOf(b.check_in) < DayOf(b.check_out)
          IN  /\ resp'.status = 200 => valid
              /\ (b.room \in DOMAIN df /\ ~valid)
                    => (resp'.status = 400 /\ df'[b.room] = df[b.room]) ]_vars

\* C9: the total_cost of a successful create_booking is the price the room
\* had before the booking times the days from check-in to check-out.
C9_TotalCost ==
    [][ (Handles("create_booking") /\ resp'.status = 200) =>
          resp'.cost = df[resp'.room].Price
                         * (DayOf(resp'.req.check_out) - DayOf(resp'.req.check_in)) ]_vars

C9_Witness ==
    /\ resp.op = "create_booking"
    /\ resp.status = 200
    /\ resp.req.check_in = "2025-08-01"
    /\ resp.req.check_out = "2025-08-04"
    /\ df[resp.room].Price = 3500
    /\ resp.cost = 10500

\* C10: a date-range listing returns exactly the rooms that are Available
\* or are Booked with a check-out date on or before the requested check-in,
\* each once; the listing for regular guests leaves out the rooms reserved
\* for upselling.
C10_RangeListing ==
    ( /\ resp.op \in {"available_rooms_for_dates",
                      "available_rooms_for_dates_with_upselling"}
      /\ resp.status = 200 )
    => /\ {resp.rooms[i] : i \in DOMAIN resp.rooms} =
            { n \in DOMAIN df :
                /\ resp.op = "available_rooms_for_dates" => df[n].Reserved # "Yes"
                /\ \/ df[n].Availability = "Available"
                   \/ /\ df[n].Availability = "Booked"
                      /\ OnOrBefore(df[n].CheckOut, resp.req.check_in) }
       /\ \A i, j \in DOMAIN resp.rooms : resp.rooms[i] = resp.rooms[j] => i = j

\* A Booked room whose check-out is the requested check-in day is returned.
C10_Witness ==
    /\ resp.op = "available_rooms_for_dates"
    /\ resp.status = 200
    /\ \E i \in DOMAIN resp.rooms :
          /\ df[resp.rooms[i]].Availability = "Booked"
          /\ df[resp.rooms[i]].CheckOut = resp.req.check_in

\* The room numbers a listing returned are exactly those of the set S, each
\* once.
ListsExactly(rooms, S) ==
    /\ {rooms[i] : i \in DOMAIN rooms} = S
    /\ Len(rooms) = Cardinality(S)

C12_CountMatchesAvailabilityColumn ==
    resp.op = "available_rooms" =>
        Len(resp.rooms) =
            Cardinality({n \in DOMAIN df : Lower(df[n].Availability) = "available"})

\* C13: in the upselling listing every reserved room is priced at its ledger
\* price times (1 + markup/100) with original_price the ledger price, every
\* other room keeps its ledger price, and the listing leaves the prices the
\* ledger stores as they were.  Listed prices are in hundredths.
C13_UpsellPricing ==
    [][Handles("available_rooms_with_upselling") =>
         /\ Len(resp'.priced) = Len(resp'.rooms)
         /\ \A i \in DOMAIN resp'.priced :
               LET room == resp'.priced[i]
                   n    == room.RoomNumber
               IN  /\ n = resp'.rooms[i]
                   /\ room.original_price = 100 * df[n].Price
                   /\ IF df[n].Reserved = "Yes"
                      THEN /\ room.markup_percentage \in Markups
                           /\ room.Price =
                                  df[n].Price * (100 + room.markup_percentage)
                      ELSE room.Price = 100 * df[n].Price
         /\ \A i, j \in DOMAIN resp'.priced :
               ( /\ resp'.priced[i].is_premium_upselling
                 /\ resp'.priced[j].is_premium_upselling )
               => resp'.priced[i].markup_percentage = resp'.priced[j].markup_percentage
         /\ \A n \in DOMAIN df : df'[n].Price = df[n].Price
         /\ df' = df /\ csv' = csv]_vars

\* The Deluxe room, 5000 a night and reserved, is listed at 5750.00 with
\* original_price 5000.00 under a markup of 15 percent.
C13_Witness ==
    /\ resp.op = "available_rooms_with_upselling"
    /\ \E i \in DOMAIN resp.priced :
          /\ df[resp.priced[i].RoomNumber].Price = 5000
          /\ resp.priced[i].markup_percentage = 15
          /\ resp.priced[i].Price = 575000
          /\ resp.priced[i].original_price = 500000

\* C14: update_guest is a partial update.  For each of the six columns a
\* supplied non-empty value replaces the stored one and an empty value
\* leaves the stored one; an absent room gives 404 and changes nothing.
C14_PartialUpdate ==
    [][Handles("update_guest") =>
         LET n == resp'.room
             p == resp'.payload
             Kept(supplied, stored) == IF supplied # "" THEN supplied ELSE stored
         IN  IF n \notin DOMAIN df
             THEN resp'.status = 404 /\ df' = df /\ csv' = csv
             ELSE /\ resp'.status = 200
                  /\ df'[n].Availability = Kept(p.availability, df[n].Availability)
                  /\ df'[n].NameOfGuest = Kept(p.guest_name, df[n].NameOfGuest)
                  /\ df'[n].NumberOfPeople =
                         Kept(IF p.number_of_people.is_int
                              THEN IntToStr(p.number_of_people.int)
                              ELSE p.number_of_people.str, df[n].NumberOfPeople)
                  /\ df'[n].ExtraFacility = Kept(p.extra_facility, df[n].ExtraFacility)
                  /\ df'[n].CheckIn = Kept(p.check_in_date, df[n].CheckIn)
                  /\ df'[n].CheckOut = Kept(p.check_out_date, df[n].CheckOut)]_vars

\* An update that supplied dates and no guest name: the room has the new
\* dates and still the guest it had.
C14_Witness ==
    /\ resp.op = "update_guest"
    /\ resp.status = 200
    /\ resp.payload.guest_name = ""
    /\ resp.payload.check_in_date = "2025-08-01"
    /\ df[resp.room].NameOfGuest = "Guest_7"
    /\ df[resp.room].CheckIn = "2025-08-01"

\* C15: between requests the file holds what the in-memory ledger holds.
C15_FileEqualsLedger == csv = df

\* C16: the ledger has the rooms it was loaded with, no more and no fewer,
\* and so has the file.
C16_RoomSetFixed == DOMAIN df = RoomNumbers /\ DOMAIN csv = RoomNumbers

\* A booking was made and then cancelled.
C16_Witness ==
    /\ prev.op = "create_booking" /\ prev.status = 200
    /\ resp.op = "cancel_booking" /\ resp.status = 200

\* The guest record in hand has been analysed.
Analysed == insights # NoInsights

\* C19: room_category is 'luxury' when the earlier room type contains suite,
\* presidential or executive, otherwise 'premium' when it contains deluxe,
\* premium or superior, otherwise 'standard'; a room type with keywords of
\* both groups is 'luxury'.
C19_RoomCategoryFirstMatch ==
    Analysed =>
        LET t == lower(guest.room_type)
            luxury  == \E w \in {"suite", "presidential", "executive"} : Contains(t, w)
            premium == \E w \in {"deluxe", "premium", "superior"} : Contains(t, w)
        IN  insights.room_preferences.room_category =
                IF luxury THEN "luxury" ELSE IF premium THEN "premium" ELSE "standard"

\* A room type with a keyword of each group was classified.
C19_Witness ==
    /\ Analysed
    /\ guest.room_type = "Executive Deluxe"
    /\ insights.room_preferences.room_category = "luxury"

\* C20: attention_to_detail is 'high' for special requests longer than 30
\* characters, otherwise 'moderate-high' for more than 10, otherwise
\* 'moderate'.
C20_AttentionTiered ==
    Analysed =>
        insights.satisfaction_insights.attention_to_detail =
            IF Len(guest.special_requests) > 30 THEN "high"
            ELSE IF Len(guest.special_requests) > 10 THEN "moderate-high"
            ELSE "moderate"

\* C20 as the code has it: attention_to_detail is 'high' for special requests
\* longer than 20 characters and 'moderate' otherwise.
C20_AttentionOver20 ==
    Analysed =>
        insights.satisfaction_insights.attention_to_detail =
            IF Len(guest.special_requests) > 20 THEN "high" ELSE "moderate"

\* Special requests of 21 characters gave 'high', while detail_orientation
\* of the personality bundle is 'moderate-high'.
C20_Witness ==
    /\ Analysed
    /\ Len(guest.special_requests) = 21
    /\ insights.satisfaction_insights.attention_to_detail = "high"
    /\ insights.personality_indicators.detail_orientation = "moderate-high"

\* The texts the handlers return in place of an answer of the LLM.
CannedResponses ==
    {"I'm sorry, my AI knowledge system is not available right now. Please contact our staff for assistance.",
     "I'm having trouble generating a response right now. Please try again.",
     "I encountered an error: <e>. Please try again.",
     "I encountered an error while processing your question: <e>. Please try rephrasing your question.",
     "Error generating response: <e>. Please ensure Ollama is running and the model is available.",
     "Error generating personalized recommendations: <e>",
     "No available rooms to recommend.",
     "## Recommendations for <guest_name>"}

\* The LLM call of the handler that replied could not give an answer.
LLMFailed ==
    \/ llm.outcome \in {"non_200", "timeout", "connection_error"}
    \/ reply.handler = "guest" /\ (~llm.available \/ guest = NoGuest)
    \/ reply.handler = "staff" /\ ~llm.client

Mentions(text, words) == \E w \in words : Contains(lower(text), w)

\* C21: the activity level follows the amenities alone: 'high' when they
\* mention spa, massage, wellness, gym or fitness (wellness_focus is then
\* 'high'), also when they mention pool or swimming as well; 'moderate-high'
\* when they mention only pool or swimming; 'moderate' otherwise.
C21_ActivityLevelFromAmenities ==
    Analysed =>
        LET wellness == Mentions(guest.amenities_used,
                                 {"spa", "massage", "wellness", "gym", "fitness"})
            pool     == Mentions(guest.amenities_used, {"pool", "swimming"})
        IN  /\ wellness => insights.lifestyle_profile.wellness_focus = "high"
            /\ insights.lifestyle_profile.activity_level =
                   IF wellness THEN "high"
                   ELSE IF pool THEN "moderate-high"
                   ELSE "moderate"

\* C22: the first matching tier decides the sentiment, positive tiers before
\* negative ones: very_positive, else positive, else very_negative, else
\* negative, and neutral for feedback that is empty or has no keyword.
C22_SentimentFirstMatch ==
    Analysed =>
        LET f == guest.feedback_and_issues
            very_positive == Mentions(f, {"excellent", "amazing", "perfect", "loved", "wonderful"})
            positive      == Mentions(f, {"good", "nice", "pleasant", "satisfied"})
            very_negative == Mentions(f, {"terrible", "awful", "horrible", "worst"})
            negative      == Mentions(f, {"bad", "poor", "disappointed", "unsatisfied"})
            sentiment     == insights.satisfaction_insights.overall_sentiment
        IN  /\ very_positive => sentiment = "very_positive"
            /\ (~very_positive /\ positive) => sentiment = "positive"
            /\ sentiment \in {"negative", "very_negative"} => ~very_positive /\ ~positive
            /\ (~very_positive /\ ~positive /\ very_negative) => sentiment = "very_negative"
            /\ (~very_positive /\ ~positive /\ ~very_negative /\ negative)
                   => sentiment = "negative"
            /\ (~very_positive /\ ~positive /\ ~very_negative /\ ~negative)
                   => sentiment = "neutral"

\* Feedback with a positive and a very negative keyword was rated positive.
C22_Witness ==
    /\ Analysed
    /\ guest.feedback_and_issues = "Good room but terrible wifi"
    /\ insights.satisfaction_insights.overall_sentiment = "positive"

\* C23: spending_category is 'high' above 20000, 'moderate-high' above 10000
\* up to 20000, 'budget' below 3000 and 'moderate' from 3000 to 10000.
C23_SpendingCategory ==
    Analysed =>
        LET spend == guest.total_bill IN
        insights.loyalty_behavior.spending_category =
            CASE spend > 20000                    -> "high"
              [] spend > 10000 /\ spend <= 20000 -> "moderate-high"
              [] spend < 3000                     -> "budget"
              [] spend >= 3000 /\ spend <= 10000 -> "moderate"

\* A spend of exactly 20000 was put in 'moderate-high'.
C23_Witness ==
    /\ Analysed
    /\ guest.total_bill = 20000
    /\ insights.loyalty_behavior.spending_category = "moderate-high"

\* C25: a create_booking that answers with an error (room not found, room
\* not available, dates that cannot be parsed) leaves the ledger and the
\* file as they were.
C25_FailedBookingChangesNothing ==
    [][(Handles("create_booking") /\ resp'.status # 200)
          => (df' = df /\ csv' = csv)]_vars

\* C26: a request for room n leaves the row of every other room as it was,
\* and no request changes the room type, the price or the reserved flag of
\* any room.
C26_OtherRowsAndFixedColumns ==
    [][steps' = steps + 1 =>
         \A m \in DOMAIN df :
             /\ m \in DOMAIN df'
             /\ m # resp'.room => df'[m] = df[m]
             /\ df'[m].RoomType = df[m].RoomType
             /\ df'[m].Price = df[m].Price
             /\ df'[m].Reserved = df[m].Reserved]_vars

\* A reserved room with a guest was cancelled while the other room is held
\* by a guest.
C26_Witness ==
    /\ resp.op = "cancel_booking" /\ resp.status = 200
    /\ df[resp.room].Reserved = "Yes"
    /\ \E m \in DOMAIN df : m # resp.room /\ df[m].NameOfGuest = "Guest_7"

\* C24: the generator considers the first 5 rooms of the listing and no
\* others, in the listing's order; it shows at most 3 recommendations, the
\* first ones, in that order; every recommendation has 1 to 3 rationale
\* entries, and a room no rule fits has the default rationale of its type.
C24_RecommendationCaps ==
    recs.generated =>
        /\ Len(recs.recommendations) = (IF Len(recs.rooms) < 5 THEN Len(recs.rooms) ELSE 5)
        /\ \A i \in DOMAIN recs.recommendations :
               /\ recs.recommendations[i].room_number = recs.rooms[i].RoomNumber
               /\ Len(recs.recommendations[i].benefits) \in 1..3
               /\ guest_benefits(recs.guest_profile, recs.rooms[i])[1]
                      \in {"default_suite", "default_deluxe", "default_double"}
                   => recs.recommendations[i].benefits
                          = <<"default_" \o lower(recs.rooms[i].RoomType)>>
        /\ Len(recs.shown) <= 3
        /\ Len(recs.shown) = (IF Len(recs.rooms) < 3 THEN Len(recs.rooms) ELSE 3)
        /\ \A i \in DOMAIN recs.shown : recs.shown[i] = recs.recommendations[i]

\* Six rooms were listed to a guest whom more than three rules fit for the
\* first room and none for the last; five were considered and three shown.
C24_Witness ==
    /\ recs.generated
    /\ Len(recs.rooms) = 6
    /\ Len(guest_benefits(recs.guest_profile, recs.rooms[1])) > 3
    /\ Len(recs.recommendations) = 5
    /\ Len(recs.shown) = 3

\* Rooms were listed to a guest whom no rule fits.
C24_WitnessDefault ==
    /\ recs.generated
    /\ \E i \in DOMAIN recs.shown : recs.shown[i].benefits = <<"default_double">>

\* C28: the tool posts a booking only when the guest lookup answered 200;
\* when the guest service answers 404 for the guest id, the tool returns an
\* error and the ledger and the file are as they were.
C28_BookingOnlyAfterLookup ==
    [][tool'.calls = tool.calls + 1 =>
         /\ tool'.sent => tool'.lookup = 200
         /\ steps' # steps => tool'.sent
         /\ (tool'.guest_id \notin GuestIds /\ tool'.lookup # 0) =>
                /\ tool'.lookup = 404
                /\ ~tool'.success /\ tool'.error # ""
                /\ df' = df /\ csv' = csv /\ steps' = steps /\ resp' = resp]_vars

\* A first call booked a room for a known guest; a second call, for a guest
\* the table does not hold, was answered with the error.
C28_Witness ==
    /\ tool.calls = 2
    /\ tool.guest_id \notin GuestIds
    /\ tool.lookup = 404
    /\ tool.error = "Could not retrieve guest context for booking"
    /\ resp.op = "create_booking" /\ resp.status = 200

\* The guest front end handled one more message.
GuestSaid == session'.turns = session.turns + 1

\* C27: a room the guest dialogue offered from the date-range listing is
\* accepted by create_booking for the dates it was listed for, when the
\* server handled no request between the listing and the booking.
C27_OfferedRoomsCanBeBooked ==
    [][(/\ GuestSaid
        /\ session'.post.sent
        /\ InList(session'.post.booking_state.room_number, session.offered.rooms)
        /\ session'.post.booking_state.check_in = session.offered.check_in
        /\ session'.post.booking_state.check_out = session.offered.check_out
        /\ session.offered.steps = steps)
          => session'.post.status = 200]_vars

\* C30: while a date collection is pending, a message without a date is
\* answered by the date collection with the date-format error, and the
\* step and the two pending dates stay as they are; the step is cleared
\* only by a message with a date.
C30_DateCollectionHolds ==
    [][(GuestSaid /\ session.date_collection_step # "") =>
         /\ extract_keywords_and_intent[session'.message].dates = <<>> =>
                /\ session'.route = "date_collection"
                /\ session'.answer = "date_format_error"
                /\ session'.date_collection_step = session.date_collection_step
                /\ session'.pending_check_in = session.pending_check_in
                /\ session'.pending_check_out = session.pending_check_out
                /\ steps' = steps
         /\ session'.date_collection_step = "" =>
                extract_keywords_and_intent[session'.message].dates # <<>>]_vars

\* The check-in date is recorded, the check-out date is pending, and the
\* guest's last message, which held no date, got the date-format error.
C30_Witness ==
    /\ session.date_collection_step = "check_out"
    /\ session.pending_check_in # ""
    /\ extract_keywords_and_intent[session.message].dates = <<>>
    /\ session.answer = "date_format_error"

\* The staff front end handled one more message.
StaffSaid == desk'.turns = desk.turns + 1

\* Every field of the booking state holds a value.
AllCollected(booking_state) ==
    /\ booking_state.guest_id # 0
    /\ booking_state.room_number # 0
    /\ booking_state.check_in # ""
    /\ booking_state.check_out # ""
    /\ booking_state.adults # 0

\* The fields of `before` that hold a value hold the same value in `after`.
KeepsCollected(before, after) ==
    /\ before.guest_id # 0 => after.guest_id = before.guest_id
    /\ before.room_number # 0 => after.room_number = before.room_number
    /\ before.check_in # "" => after.check_in = before.check_in
    /\ before.check_out # "" => after.check_out = before.check_out
    /\ before.adults # 0 => after.adults = before.adults

\* The message the front end just handled made the server handle a
\* create_booking request.
BookingRequested ==
    \/ steps' = steps + 1 /\ resp'.op = "create_booking"
    \/ steps' = steps + 2 /\ prev'.op = "create_booking"

\* What C29 asks of one front end, whose state is `before` and then `after`.
DialogueCollects(before, after) ==
    /\ BookingRequested => after.post.sent
    /\ after.post.sent =>
           /\ AllCollected(after.post.booking_state)
           /\ KeepsCollected(before.progressive_booking, after.post.booking_state)
    /\ (before.progressive_booking.active /\ after.progressive_booking.active) =>
           KeepsCollected(before.progressive_booking, after.progressive_booking)

\* C29: in the guest and in the staff dialogue, a booking is posted only
\* with guest id, room number, check-in, check-out and adult count all
\* collected, and a message of a dialogue leaves every field that already
\* holds a value as it is, up to and including the booking that is posted.
C29_DialogueCollectsAllFields ==
    [][/\ GuestSaid => DialogueCollects(session, session')
       /\ StaffSaid => DialogueCollects(desk, desk')]_vars

\* The staff dialogue asked for each field in turn and its sixth message
\* completed a booking the server accepted.
C29_Witness ==
    /\ desk.turns = 6
    /\ desk.post.sent /\ desk.post.status = 200
    /\ AllCollected(desk.post.booking_state)

\* The guest dialogue took the dates of the last room search, asked for the
\* room and the adults, and posted the booking.
C29_WitnessGuest ==
    /\ session.post.sent /\ session.post.status = 200
    /\ AllCollected(session.post.booking_state)

====
